---------------------------- MODULE Spec2Model ----------------------------
(***************************************************************************)
(* A model of sse_crawler (src/src/sse/sse.rs, src/src/main.rs): the three *)
(* JSONP response parsers CompanyInfo::try_from, InfoDisclosure::try_from  *)
(* and MeetingAnnounce::new, with the file classification they perform,    *)
(* and the run of main: the tasks it spawns chunk by chunk, each running   *)
(* process_company and download_company_files and adding its outcome to    *)
(* the shared SseQuery.                                                    *)
(*                                                                         *)
(* Text.  A Rust String is a sequence of one-element tokens.  A token is a *)
(* single character ("(", ")", "/", ".", " ", a digit, ...) or an opaque   *)
(* chunk of ordinary letters that holds none of the characters the code    *)
(* inspects.  The token "w" is one character that is three bytes long in   *)
(* UTF-8 (the payloads are Chinese text); every other token of a response  *)
(* is one byte.  The token "J" stands for the serialised members of the    *)
(* JSON object of a response; the value they denote is the variable        *)
(* payload.                                                                *)
(*                                                                         *)
(* Folder names are transliterated, the module being ASCII:                *)
(*   申报稿 ShenBaoGao, 注册稿 ZhuCeGao, 上会稿 ShangHuiGao, 结果 JieGuo,   *)
(*   问询与回复 WenXunYuHuiFu, 发行人与保荐机构 FaXingRenYuBaoJianJiGou,    *)
(*   会计师 KuaiJiShi, 律师 LvShi, 未分组 WeiFenZu.                         *)
(***************************************************************************)
EXTENDS Integers, Sequences, FiniteSets, TLC

VARIABLES
    resp,       \* the raw response text handed to a parser
    payload,    \* the JSON value the token "J" of resp serialises
    id,         \* the audit id MeetingAnnounce::new is called with (its digits)
    build,      \* "debug" (overflow checks on) or "release" (wrapping)
    parser,     \* which parser has run: "none" before the call
    json_str,   \* the parser's local json_str once the unwrapping step ran
    outcome,    \* what the call produced: Ok / Err / Panic
    companies,  \* main: the company names of the run, in order
    sched,      \* main: where main stands and how many tasks it has spawned
    task,       \* the spawned task of each company: its position and locals
    sse,        \* the shared SseQuery: companies and failed_logs
    mutex,      \* the owner of the Mutex around sse, 0 when it is free
    disk        \* the file system: the paths that exist and what they hold

\* the variables of one parser call
call_vars == <<resp, payload, id, parser, json_str, outcome>>
\* the variables of a run of main
run_vars == <<companies, sched, task, sse, mutex, disk>>

vars == <<resp, payload, id, build, parser, json_str, outcome,
          companies, sched, task, sse, mutex, disk>>

---------------------------------------------------------------------------
(* Bounds of the model                                                     *)

\* longest run of characters inside the free-text string of a JSON body
MaxInner == 2
\* longest arbitrary (not envelope-shaped) response text
MaxRaw == 2
\* most characters that follow the closing parenthesis of an envelope
MaxTrail == 1
\* most file descriptors in one disclosure or announcement response
MaxFiles == 2
\* most entries in the stockAudit roster of an announcement
MaxRoster == 2

---------------------------------------------------------------------------
(* Results and options                                                     *)

Ok(v) == [tag |-> "Ok", val |-> v]
Err(m) == [tag |-> "Err", msg |-> m]
Panic(m) == [tag |-> "Panic", msg |-> m]
Some(v) == [some |-> TRUE, v |-> v]
None == [some |-> FALSE]

---------------------------------------------------------------------------
(* Sequences of tokens                                                     *)

RECURSIVE SeqsUpTo(_, _)
\* every sequence over S of length at most n
SeqsUpTo(S, n) ==
    IF n = 0 THEN {<<>>}
    ELSE LET shorter == SeqsUpTo(S, n - 1)
         IN  shorter \cup {Append(s, c) : s \in shorter, c \in S}

RECURSIVE Join(_)
\* [&str]::join(""): the pieces concatenated
Join(pieces) ==
    IF pieces = <<>> THEN <<>> ELSE Head(pieces) \o Join(Tail(pieces))

\* str::starts_with
StartsWith(s, p) == Len(s) >= Len(p) /\ SubSeq(s, 1, Len(p)) = p

RECURSIVE TrimStart(_)
TrimStart(s) ==
    IF s # <<>> /\ Head(s) = " " THEN TrimStart(Tail(s)) ELSE s

RECURSIVE TrimEnd(_)
TrimEnd(s) ==
    IF s # <<>> /\ s[Len(s)] = " " THEN TrimEnd(SubSeq(s, 1, Len(s) - 1)) ELSE s

\* str::trim: leading and trailing whitespace removed
Trim(s) == TrimEnd(TrimStart(s))

---------------------------------------------------------------------------
(* The JSONP envelope: sse.rs 87-91, 202-206, 459-463                      *)

\* UTF-8 length of one token
Width(c) == IF c = "w" THEN 3 ELSE 1

RECURSIVE ByteLen(_)
\* String::len: the length in bytes
ByteLen(s) == IF s = <<>> THEN 0 ELSE Width(Head(s)) + ByteLen(Tail(s))

IsParen(c) == c = "(" \/ c = ")"

RECURSIVE SplitFrom(_, _, _)
SplitFrom(s, cur, acc) ==
    IF s = <<>> THEN (IF cur = <<>> THEN acc ELSE Append(acc, cur))
    ELSE IF IsParen(Head(s))
         THEN SplitFrom(Tail(s), <<>>, Append(acc, Append(cur, Head(s))))
         ELSE SplitFrom(Tail(s), Append(cur, Head(s)), acc)

\* str::split_inclusive(&['(', ')']): the pieces of s, each ending with
\* the parenthesis that closes it; no piece for an empty remainder
SplitInclusive(s) == SplitFrom(s, <<>>, <<>>)

\* String::truncate(len - 1) on a non-empty string: panics unless the new
\* length is a character boundary
TruncateLast(s) ==
    IF Width(s[Len(s)]) = 1
    THEN Ok(SubSeq(s, 1, Len(s) - 1))
    ELSE Panic("truncate: not a char boundary")

\* A faulty table: fileVersion 4 is filed with the meeting drafts (2 | 4)
\* instead of the registration drafts (3 | 4)
MatchArmVersion4AsMeeting(file_type, file_ver) ==
    LET bucket == [n \in {30, 36, 37, 32, 33, 34} |->
                      CASE n = 30 -> "prospectuses" [] n = 36 -> "publish_sponsor"
                        [] n = 37 -> "list_sponsor" [] n = 32 -> "audit_report"
                        [] n = 33 -> "legal_opinion" [] n = 34 -> "others"]
        folder == <<<<"ShenBaoGao">>, <<"ShangHuiGao">>, <<"ZhuCeGao">>>>
        slot == [v \in 1..4 |-> IF v = 4 THEN 2 ELSE v]
    IN
    IF file_type \in {[some |-> TRUE, v |-> 5], [some |-> TRUE, v |-> 6]}
    THEN [kind |-> "query_and_reply"]
    ELSE IF file_type \in {[some |-> TRUE, v |-> 35], [some |-> TRUE, v |-> 38]}
    THEN [kind |-> "register_result"]
    ELSE IF file_type.some /\ file_ver.some
            /\ file_type.v \in DOMAIN bucket /\ file_ver.v \in 1..4
    THEN [kind |-> "typed", bucket |-> bucket[file_type.v],
          index |-> slot[file_ver.v] - 1, folder |-> folder[slot[file_ver.v]]]
    ELSE [kind |-> "unknown"]

\* A faulty sub-routing: accountant and lawyer replies exchanged
QueryReplyArmExchanged(filename) ==
    IF Len(filename) >= 3 /\ SubSeq(filename, 1, 3) = <<"8", "-", "1">>
    THEN [variant |-> "Sponsor",
          folder |-> <<"WenXunYuHuiFu", "/", "FaXingRenYuBaoJianJiGou">>]
    ELSE IF Len(filename) >= 3 /\ SubSeq(filename, 1, 3) = <<"8", "-", "2">>
    THEN [variant |-> "Lawyer", folder |-> <<"WenXunYuHuiFu", "/", "LvShi">>]
    ELSE IF Len(filename) >= 3 /\ SubSeq(filename, 1, 3) = <<"8", "-", "3">>
    THEN [variant |-> "Accountant", folder |-> <<"WenXunYuHuiFu", "/", "KuaiJiShi">>]
    ELSE [variant |-> "Other", folder |-> <<"WenXunYuHuiFu">>]

\* A faulty push: the bucket keeps only the file pushed last
PushFileOverwrite(list, file) == <<file>>

\* A faulty unwrapping: split on every parenthesis and keep the last chunk
\* (split_terminator(..).next_back(), as in test_query_company_brief)
UnwrapLastChunk(text, profile) ==
    LET pure_content == SplitInclusive(text) IN
    IF Len(pure_content) = 0 THEN Panic("unwrap on None")
    ELSE LET last == pure_content[Len(pure_content)] IN
         IF IsParen(last[Len(last)]) THEN Ok(SubSeq(last, 1, Len(last) - 1)) ELSE Ok(last)

\* The unwrapping step shared by the three parsers.  pure_content[1..]
\* panics for an empty vector; json_str.len() - 1 underflows for an empty
\* json_str: a panic with overflow checks, a wrap to usize::MAX (truncate
\* then does nothing) without.
Unwrap(text, profile) ==
    LET pure_content == SplitInclusive(text) IN
    IF Len(pure_content) = 0 THEN Panic("slice index out of range")
    ELSE LET joined == Join(Tail(pure_content)) IN
         IF ByteLen(joined) = 0
         THEN (IF profile = "debug"
               THEN Panic("attempt to subtract with overflow")
               ELSE Ok(joined))
         ELSE TruncateLast(joined)

\* serde_json::from_str as far as the envelope is concerned: the text is
\* one JSON object  { J }  or  { J "free text" }  (the members J and one
\* further string member whose text may hold any character but a quote),
\* with nothing before or after it.
FromStrOk(s) ==
    /\ Len(s) >= 3
    /\ s[1] = "{"
    /\ s[2] = "J"
    /\ s[Len(s)] = "}"
    /\ \/ Len(s) = 3
       \/ /\ Len(s) >= 5
          /\ s[3] = "q"
          /\ s[Len(s) - 1] = "q"
          /\ \A i \in 4..(Len(s) - 2) : s[i] # "q"

\* lines 87-91: unwrap, then parse; ? returns the serde error
ParseEnvelope(text, value, profile) ==
    LET u == Unwrap(text, profile) IN
    IF u.tag # "Ok" THEN u
    ELSE IF FromStrOk(u.val) THEN Ok(value)
    ELSE Err("serde_json")

---------------------------------------------------------------------------
(* serde_json::Value and its accessors                                     *)

Null == [t |-> "null"]
Str(s) == [t |-> "str", s |-> s]
Num(n) == [t |-> "num", n |-> n]
Arr(a) == [t |-> "arr", a |-> a]
Obj(m) == [t |-> "obj", m |-> m]

\* an object member that may be absent
Field(k, ov) == IF ov.some THEN k :> ov.v ELSE <<>>

\* Value["key"]: Null unless an object that holds the key
Get(v, k) == IF v.t = "obj" /\ k \in DOMAIN v.m THEN v.m[k] ELSE Null

\* Value[i], i counted from 0: Null unless an array that long
At(v, i) == IF v.t = "arr" /\ i < Len(v.a) THEN v.a[i + 1] ELSE Null

AsStr(v) == IF v.t = "str" THEN Some(v.s) ELSE None
AsU64(v) == IF v.t = "num" /\ v.n >= 0 THEN Some(v.n) ELSE None
AsArray(v) == IF v.t = "arr" THEN Some(v.a) ELSE None

---------------------------------------------------------------------------
(* Numbers and dates in text                                               *)

Digits == {"0", "1", "2", "3", "4", "5", "6", "7", "8", "9"}

DigitVal(c) ==
    CASE c = "0" -> 0 [] c = "1" -> 1 [] c = "2" -> 2 [] c = "3" -> 3
      [] c = "4" -> 4 [] c = "5" -> 5 [] c = "6" -> 6 [] c = "7" -> 7
      [] c = "8" -> 8 [] c = "9" -> 9

RECURSIVE DecVal(_)
\* the number a run of digits writes
DecVal(s) ==
    IF s = <<>> THEN 0
    ELSE 10 * DecVal(SubSeq(s, 1, Len(s) - 1)) + DigitVal(s[Len(s)])

RECURSIVE StripZeros(_)
\* a run of digits without its leading zeros
StripZeros(ds) ==
    IF Len(ds) > 1 /\ Head(ds) = "0" THEN StripZeros(Tail(ds)) ELSE ds

RECURSIVE DigitsLeq(_, _)
\* a <= b for two runs of digits of one length
DigitsLeq(a, b) ==
    IF a = <<>> THEN TRUE
    ELSE IF DigitVal(Head(a)) # DigitVal(Head(b)) THEN DigitVal(Head(a)) < DigitVal(Head(b))
    ELSE DigitsLeq(Tail(a), Tail(b))

\* u32::MAX, 4294967295
U32MaxDigits == <<"4", "2", "9", "4", "9", "6", "7", "2", "9", "5">>

\* str::parse::<u32>: an optional "+", then digits, no overflow.  A u32 is
\* written as its decimal digits without leading zeros.
ParseU32(s) ==
    LET ds == IF s # <<>> /\ Head(s) = "+" THEN Tail(s) ELSE s
        c == StripZeros(ds)
    IN
    IF /\ ds # <<>>
       /\ \A i \in 1..Len(ds) : ds[i] \in Digits
       /\ \/ Len(c) < Len(U32MaxDigits)
          \/ Len(c) = Len(U32MaxDigits) /\ DigitsLeq(c, U32MaxDigits)
    THEN Some(c)
    ELSE None

IsLeap(y) == (y % 4 = 0 /\ y % 100 # 0) \/ y % 400 = 0

DaysIn(y, m) ==
    IF m = 2 THEN (IF IsLeap(y) THEN 29 ELSE 28)
    ELSE IF m \in {4, 6, 9, 11} THEN 30 ELSE 31

\* parse_date_from_sse: "[year][month][day][hour][minute][second]", four
\* digits then five times two, every component in range, nothing left over
ParseDateFromSse(input) ==
    IF Len(input) # 14 \/ (\E i \in 1..Len(input) : input[i] \notin Digits)
    THEN Err("time::parse")
    ELSE LET year == DecVal(SubSeq(input, 1, 4))
             month == DecVal(SubSeq(input, 5, 6))
             day == DecVal(SubSeq(input, 7, 8))
             hour == DecVal(SubSeq(input, 9, 10))
             minute == DecVal(SubSeq(input, 11, 12))
             second == DecVal(SubSeq(input, 13, 14))
         IN  IF /\ month \in 1..12
                /\ day \in 1..DaysIn(year, month)
                /\ hour \in 0..23
                /\ minute \in 0..59
                /\ second \in 0..59
             THEN Ok([date |-> [year |-> year, month |-> month, day |-> day],
                      time |-> [hour |-> hour, minute |-> minute, second |-> second]])
             ELSE Err("time::parse")

---------------------------------------------------------------------------
(* CompanyInfo::try_from: sse.rs 84-146                                    *)

\* A faulty status table: the two registration results exchanged
ResolveStatusExchanged(status, result, dt) ==
    IF status = Some(5) /\ result = Some(3)
    THEN [variant |-> "Registered",
          result |-> [variant |-> "RegisterEffective", date |-> dt.date]]
    ELSE IF status = Some(5) /\ result = Some(1)
    THEN [variant |-> "Registered",
          result |-> [variant |-> "RegisterTerminated", date |-> dt.date]]
    ELSE IF status = Some(4) THEN [variant |-> "Submitted", date |-> dt.date]
    ELSE IF status = Some(3) THEN [variant |-> "Discussed", date |-> dt.date]
    ELSE IF status = Some(2) THEN [variant |-> "Queried", date |-> dt.date]
    ELSE IF status = Some(1) THEN [variant |-> "Accepted", date |-> dt.date]
    ELSE IF status.some /\ result.some
    THEN [variant |-> "Unsupported", status |-> status.v, result |-> result.v]
    ELSE [variant |-> "Unknown"]

\* lines 117-130: the match on (status, result); dt is the parsed
\* updateDate and dt.date its date component
ResolveStatus(status, result, dt) ==
    IF status = Some(5) /\ result = Some(1)
    THEN [variant |-> "Registered",
          result |-> [variant |-> "RegisterEffective", date |-> dt.date]]
    ELSE IF status = Some(5) /\ result = Some(3)
    THEN [variant |-> "Registered",
          result |-> [variant |-> "RegisterTerminated", date |-> dt.date]]
    ELSE IF status = Some(4) THEN [variant |-> "Submitted", date |-> dt.date]
    ELSE IF status = Some(3) THEN [variant |-> "Discussed", date |-> dt.date]
    ELSE IF status = Some(2) THEN [variant |-> "Queried", date |-> dt.date]
    ELSE IF status = Some(1) THEN [variant |-> "Accepted", date |-> dt.date]
    ELSE IF status.some /\ result.some
    THEN [variant |-> "Unsupported", status |-> status.v, result |-> result.v]
    ELSE [variant |-> "Unknown"]

\* A faulty emptiness test: an empty result array goes unnoticed
EmptyResultUnchecked(result) == FALSE

\* line 92: matches!(&json_body["result"], Value::Array(result) if result.is_empty())
EmptyResult(result) == result.t = "arr" /\ Len(result.a) = 0

\* lines 92-144 on the parsed body; the fields are evaluated in the order
\* of the struct literal, each early return or unwrap ending the call
CompanyInfoFromBody(json_body) ==
    LET result == Get(json_body, "result")
        first == At(result, 0)
        company_name ==
            AsStr(Get(At(Get(first, "stockIssuer"), 0), "s_issueCompanyFullName"))
        number == AsStr(Get(first, "stockAuditNum"))
        status == AsU64(Get(first, "currStatus"))
        regres == AsU64(Get(first, "registeResult"))
        update_date == AsStr(Get(first, "updateDate"))
        apply_date == AsStr(Get(first, "auditApplyDate"))
    IN
    IF EmptyResult(result) THEN Err("empty company info")
    ELSE IF ~company_name.some THEN Err("get company name failed")
    ELSE IF ~number.some THEN Panic("unwrap on None: stockAuditNum")
    ELSE IF ~ParseU32(number.v).some THEN Panic("unwrap on Err: parse u32")
    ELSE IF ~update_date.some THEN Err("acquire update time failed")
    ELSE IF ParseDateFromSse(update_date.v).tag # "Ok" THEN Err("time::parse")
    ELSE IF ~apply_date.some THEN Err("acquire apply_date failed")
    ELSE IF ParseDateFromSse(apply_date.v).tag # "Ok" THEN Err("time::parse")
    ELSE Ok([stock_audit_name |-> Trim(company_name.v),
             stock_audit_number |-> ParseU32(number.v).v,
             curr_status |->
                 ResolveStatus(status, regres, ParseDateFromSse(update_date.v).val),
             apply_date |-> ParseDateFromSse(apply_date.v).val,
             update_date |-> ParseDateFromSse(update_date.v).val])

\* CompanyInfo::try_from(resp)
CompanyInfoTryFromFn(text, value, profile) ==
    LET e == ParseEnvelope(text, value, profile) IN
    IF e.tag # "Ok" THEN e ELSE CompanyInfoFromBody(e.val)

---------------------------------------------------------------------------
(* Paths and URLs                                                          *)

\* sse.rs 14-21
DECLARE_SUBFOLDER == <<"ShenBaoGao">>
REGISTER_SUBFOLDER == <<"ZhuCeGao">>
MEETING_SUBFOLDER == <<"ShangHuiGao">>
SPONSOR_SUBFOLDER == <<"WenXunYuHuiFu", "/", "FaXingRenYuBaoJianJiGou">>
ACCOUNTANT_SUBFOLDER == <<"WenXunYuHuiFu", "/", "KuaiJiShi">>
LAWYER_SUBFOLDER == <<"WenXunYuHuiFu", "/", "LvShi">>
RESULT_SUBFOLDER == <<"JieGuo">>
UNCLASSIFIED_SUBFOLDER == <<"WenXunYuHuiFu", "/", "WeiFenZu">>

\* sse.rs 23-31: the folders download_company_files creates up front
SUBFOLDERS ==
    <<DECLARE_SUBFOLDER, REGISTER_SUBFOLDER, MEETING_SUBFOLDER, SPONSOR_SUBFOLDER,
      ACCOUNTANT_SUBFOLDER, LAWYER_SUBFOLDER, RESULT_SUBFOLDER>>

\* PathBuf::push: an absolute component replaces the path; otherwise a
\* separator is added unless the path is empty or already ends with one
Push(path, s) ==
    IF s # <<>> /\ Head(s) = "/" THEN s
    ELSE IF path # <<>> /\ path[Len(path)] # "/" THEN path \o <<"/">> \o s
    ELSE path \o s

RECURSIVE StripSeps(_)
\* the path without its trailing separators
StripSeps(path) ==
    IF path # <<>> /\ path[Len(path)] = "/"
    THEN StripSeps(SubSeq(path, 1, Len(path) - 1))
    ELSE path

RECURSIVE LastSep(_)
\* the position of the last separator of the path, 0 if it has none
LastSep(path) ==
    IF path = <<>> THEN 0
    ELSE IF path[Len(path)] = "/" THEN Len(path)
    ELSE LastSep(SubSeq(path, 1, Len(path) - 1))

RECURSIVE LastDot(_)
\* the position of the last "." of a name, 0 if it has none
LastDot(name) ==
    IF name = <<>> THEN 0
    ELSE IF name[Len(name)] = "." THEN Len(name)
    ELSE LastDot(SubSeq(name, 1, Len(name) - 1))

\* Path::file_name: the last component, none for an empty path, the root
\* or a path that ends in ".."
FileName(path) ==
    LET p == StripSeps(path)
        name == SubSeq(p, LastSep(p) + 1, Len(p))
    IN  IF p = <<>> \/ name = <<".", ".">> THEN None ELSE Some(name)

\* Path::file_stem: the name up to its last ".", the whole name when it
\* has no "." or only a leading one
FileStem(name) ==
    IF LastDot(name) <= 1 THEN name ELSE SubSeq(name, 1, LastDot(name) - 1)

\* PathBuf::set_extension("pdf"): cut the path after the file stem, then
\* add ".pdf"; a path without a file name is left as it is
SetExtensionPdf(path) ==
    LET p == StripSeps(path) IN
    IF ~FileName(path).some THEN path
    ELSE SubSeq(p, 1, LastSep(p)) \o FileStem(FileName(path).v) \o <<".", "pdf">>

\* Url::parse("http://static.sse.com.cn/stock/") with set_path(p): the
\* path of an http URL always starts with "/"
SetPath(p) ==
    <<"http://static.sse.com.cn">> \o (IF p # <<>> /\ Head(p) = "/" THEN p ELSE <<"/">> \o p)

---------------------------------------------------------------------------
(* InfoDisclosure::try_from: sse.rs 199-449                                *)

\* InfoDisclosure::default()
EmptyInfoDisclosure ==
    [prospectuses |-> <<<<>>, <<>>, <<>>>>,
     publish_sponsor |-> <<<<>>, <<>>, <<>>>>,
     list_sponsor |-> <<<<>>, <<>>, <<>>>>,
     audit_report |-> <<<<>>, <<>>, <<>>>>,
     legal_opinion |-> <<<<>>, <<>>, <<>>>>,
     others |-> <<<<>>, <<>>, <<>>>>,
     query_and_reply |-> <<>>,
     register_result_or_audit_terminated |-> <<>>]

\* Vec::push on a bucket: lines 245, 408, 436
PushFile(list, file) == Append(list, file)

TypedArm(bucket, index, folder) ==
    [kind |-> "typed", bucket |-> bucket, index |-> index, folder |-> folder]

\* lines 238-441: the arm of the match that (file_type, file_ver) selects;
\* index is the array index the arm pushes to
MatchArm(file_type, file_ver) ==
    CASE file_type = Some(30) /\ file_ver = Some(1) -> TypedArm("prospectuses", 0, DECLARE_SUBFOLDER)
      [] file_type = Some(30) /\ file_ver = Some(2) -> TypedArm("prospectuses", 1, MEETING_SUBFOLDER)
      [] file_type = Some(30) /\ file_ver \in {Some(3), Some(4)} -> TypedArm("prospectuses", 2, REGISTER_SUBFOLDER)
      [] file_type = Some(36) /\ file_ver = Some(1) -> TypedArm("publish_sponsor", 0, DECLARE_SUBFOLDER)
      [] file_type = Some(36) /\ file_ver = Some(2) -> TypedArm("publish_sponsor", 1, MEETING_SUBFOLDER)
      [] file_type = Some(36) /\ file_ver \in {Some(3), Some(4)} -> TypedArm("publish_sponsor", 2, REGISTER_SUBFOLDER)
      [] file_type = Some(37) /\ file_ver = Some(1) -> TypedArm("list_sponsor", 0, DECLARE_SUBFOLDER)
      [] file_type = Some(37) /\ file_ver = Some(2) -> TypedArm("list_sponsor", 1, MEETING_SUBFOLDER)
      [] file_type = Some(37) /\ file_ver \in {Some(3), Some(4)} -> TypedArm("list_sponsor", 2, REGISTER_SUBFOLDER)
      [] file_type = Some(32) /\ file_ver = Some(1) -> TypedArm("audit_report", 0, DECLARE_SUBFOLDER)
      [] file_type = Some(32) /\ file_ver = Some(2) -> TypedArm("audit_report", 1, MEETING_SUBFOLDER)
      [] file_type = Some(32) /\ file_ver \in {Some(3), Some(4)} -> TypedArm("audit_report", 2, REGISTER_SUBFOLDER)
      [] file_type = Some(33) /\ file_ver = Some(1) -> TypedArm("legal_opinion", 0, DECLARE_SUBFOLDER)
      [] file_type = Some(33) /\ file_ver = Some(2) -> TypedArm("legal_opinion", 1, MEETING_SUBFOLDER)
      [] file_type = Some(33) /\ file_ver \in {Some(3), Some(4)} -> TypedArm("legal_opinion", 2, REGISTER_SUBFOLDER)
      [] file_type = Some(34) /\ file_ver = Some(1) -> TypedArm("others", 0, DECLARE_SUBFOLDER)
      [] file_type = Some(34) /\ file_ver = Some(2) -> TypedArm("others", 1, MEETING_SUBFOLDER)
      [] file_type = Some(34) /\ file_ver \in {Some(3), Some(4)} -> TypedArm("others", 2, REGISTER_SUBFOLDER)
      [] file_type \in {Some(5), Some(6)} -> [kind |-> "query_and_reply"]
      [] file_type \in {Some(35), Some(38)} -> [kind |-> "register_result"]
      [] OTHER -> [kind |-> "unknown"]

\* lines 404-428: the variant and the folder pushed for a query-and-reply
\* file, chosen by the prefix of its title; the last branch pushes the
\* literal of line 424
QueryReplyArm(filename) ==
    IF StartsWith(filename, <<"8", "-", "1">>)
    THEN [variant |-> "Sponsor", folder |-> SPONSOR_SUBFOLDER]
    ELSE IF StartsWith(filename, <<"8", "-", "2">>)
    THEN [variant |-> "Accountant", folder |-> ACCOUNTANT_SUBFOLDER]
    ELSE IF StartsWith(filename, <<"8", "-", "3">>)
    THEN [variant |-> "Lawyer", folder |-> LAWYER_SUBFOLDER]
    ELSE [variant |-> "Other", folder |-> <<"WenXunYuHuiFu">>]

\* lines 213-441: one turn of the closure: build the UploadFile of
\* descriptor x and push it to the bucket its arm names
ClassifyOne(infos, x) ==
    LET date == AsStr(Get(x, "publishDate"))
        name == AsStr(Get(x, "fileTitle"))
        download_url == AsStr(Get(x, "filePath"))
        company == AsStr(Get(x, "companyFullName"))
        arm == MatchArm(AsU64(Get(x, "fileType")), AsU64(Get(x, "fileVersion")))
    IN
    IF ~date.some THEN Err("get filename failed")
    ELSE IF ~name.some THEN Err("get filename failed")
    ELSE IF ~download_url.some THEN Err("get file url failed")
    ELSE IF ~company.some THEN Err("get company name failed")
    ELSE
    LET url == SetPath(<<"stock">> \o download_url.v)
        base == Push(Push(<<>>, <<"Download">>), Trim(company.v))
    IN
    CASE arm.kind = "typed" ->
           LET filename == name.v \o date.v
               file == [filename |-> filename, url |-> url,
                        path |-> SetExtensionPdf(Push(Push(base, arm.folder), filename))]
           IN  Ok([infos EXCEPT ![arm.bucket][arm.index + 1] = PushFile(@, file)])
      [] arm.kind = "query_and_reply" ->
           LET qr == QueryReplyArm(name.v)
               file == [filename |-> name.v, url |-> url,
                        path |-> SetExtensionPdf(Push(Push(base, qr.folder), name.v))]
           IN  Ok([infos EXCEPT !.query_and_reply =
                       PushFile(@, Some([variant |-> qr.variant, file |-> file]))])
      [] arm.kind = "register_result" ->
           LET file == [filename |-> name.v, url |-> url,
                        path |-> SetExtensionPdf(Push(Push(base, RESULT_SUBFOLDER), name.v))]
           IN  Ok([infos EXCEPT !.register_result_or_audit_terminated =
                       PushFile(@, Some(file))])
      [] OTHER -> Err("unknown file type")

RECURSIVE ForEachFileIgnoring(_, _)
\* A faulty loop: a descriptor that cannot be classified is skipped
ForEachFileIgnoring(infos, file_arr) ==
    IF file_arr = <<>> THEN Ok(infos)
    ELSE LET r == ClassifyOne(infos, Head(file_arr)) IN
         IF r.tag # "Ok" THEN ForEachFileIgnoring(infos, Tail(file_arr))
         ELSE ForEachFileIgnoring(r.val, Tail(file_arr))

RECURSIVE TryForEachFile(_, _)
\* lines 212, 442: try_for_each stops at the first Err
TryForEachFile(infos, file_arr) ==
    IF file_arr = <<>> THEN Ok(infos)
    ELSE LET r == ClassifyOne(infos, Head(file_arr)) IN
         IF r.tag # "Ok" THEN r ELSE TryForEachFile(r.val, Tail(file_arr))

\* lines 207-447 on the parsed body
InfoDisclosureFromBody(json_body) ==
    LET file_arr == AsArray(Get(json_body, "result")) IN
    IF ~file_arr.some THEN Err("extract file array failed")
    ELSE IF TryForEachFile(EmptyInfoDisclosure, file_arr.v).tag = "Ok"
    THEN Ok(TryForEachFile(EmptyInfoDisclosure, file_arr.v).val)
    ELSE Err("Error in parsing file path for InfoDisclosure")

\* InfoDisclosure::try_from(resp)
InfoDisclosureTryFromFn(text, value, profile) ==
    LET e == ParseEnvelope(text, value, profile) IN
    IF e.tag # "Ok" THEN e ELSE InfoDisclosureFromBody(e.val)

---------------------------------------------------------------------------
(* MeetingAnnounce::new: sse.rs 457-523                                    *)

\* A faulty scan: the roster is not searched, its first entry is taken
ScanRosterFirstEntry(stock_loop, i, audit) == Ok(0)

RECURSIVE ScanRoster(_, _, _)
\* lines 484-495: the index of the first roster entry whose auditId is
\* audit, 0 when none is; every entry looked at has its auditId unwrapped
ScanRoster(stock_loop, i, audit) ==
    IF i >= Len(stock_loop) THEN Ok(0)
    ELSE LET audit_id == AsStr(Get(stock_loop[i + 1], "auditId")) IN
         IF ~audit_id.some THEN Panic("unwrap on None: auditId")
         ELSE IF ~ParseU32(audit_id.v).some THEN Panic("unwrap on Err: parse u32")
         ELSE IF ParseU32(audit_id.v).v = audit THEN Ok(i)
         ELSE ScanRoster(stock_loop, i + 1, audit)

\* lines 470-515: one turn of the closure
AnnounceOne(announce, x, audit) ==
    LET name == AsStr(Get(x, "fileTitle"))
        download_url == AsStr(Get(x, "filePath"))
        stock_loop == AsArray(Get(x, "stockAudit"))
    IN
    IF ~name.some THEN Err("get filename failed")
    ELSE IF ~download_url.some THEN Err("get file url failed")
    ELSE IF ~stock_loop.some THEN Panic("unwrap on None: stockAudit")
    ELSE LET idx == ScanRoster(stock_loop.v, 0, audit) IN
    IF idx.tag # "Ok" THEN idx
    ELSE LET company_name ==
                 AsStr(Get(At(Get(x, "stockAudit"), idx.val), "companyFullName"))
         IN
    IF ~company_name.some THEN Err("get company name failed")
    ELSE LET file ==
                 [filename |-> name.v,
                  url |-> SetPath(<<"stock">> \o download_url.v),
                  path |-> SetExtensionPdf(
                      Push(Push(Push(Push(<<>>, <<"Download">>), Trim(company_name.v)),
                                RESULT_SUBFOLDER), name.v))]
         IN  Ok([announcements |-> Append(announce.announcements, Some(file))])

RECURSIVE TryForEachAnnounce(_, _, _)
\* lines 469, 516: try_for_each stops at the first Err; a panic unwinds
TryForEachAnnounce(announce, file_arr, audit) ==
    IF file_arr = <<>> THEN Ok(announce)
    ELSE LET r == AnnounceOne(announce, Head(file_arr), audit) IN
         IF r.tag # "Ok" THEN r ELSE TryForEachAnnounce(r.val, Tail(file_arr), audit)

\* lines 464-521 on the parsed body
MeetingAnnounceFromBody(json_body, audit) ==
    LET file_arr == AsArray(Get(json_body, "result")) IN
    IF ~file_arr.some THEN Err("extract file array failed")
    ELSE LET ret == TryForEachAnnounce([announcements |-> <<>>], file_arr.v, audit) IN
         IF ret.tag = "Err" THEN Err("Error in parsing path for MeetingAnnounce")
         ELSE ret

\* MeetingAnnounce::new(resp, id)
MeetingAnnounceNewFn(text, value, audit, profile) ==
    LET e == ParseEnvelope(text, value, profile) IN
    IF e.tag # "Ok" THEN e ELSE MeetingAnnounceFromBody(e.val, audit)

---------------------------------------------------------------------------
(* Responses the exchange may send                                         *)

Callback == <<"c", "b">>

\* characters of the free text of a JSON body
InnerChars == {"(", ")", "x", "w"}

\* serialised JSON objects: the members alone, the members and a string
\* member, and an object cut short
JsonTexts ==
    {<<"{", "J", "}">>, <<"{", "J">>}
        \cup {<<"{", "J", "q">> \o s \o <<"q", "}">> : s \in SeqsUpTo(InnerChars, MaxInner)}

TrailChars == {";", "w"}

\* callback(json) and what may follow it
EnvelopeTexts ==
    {Callback \o <<"(">> \o j \o <<")">> \o tr :
        j \in JsonTexts, tr \in SeqsUpTo(TrailChars, MaxTrail)}

\* any short text
RawTexts == SeqsUpTo({"c", "(", ")", "{", "}", "J", "w"}, MaxRaw)

\* the two well-formed envelopes the body-level specifications use, and one
\* with a trailing character
PlainText == Callback \o <<"(", "{", "J", "}", ")">>
ParenText == Callback \o <<"(", "{", "J", "q", "x", "(", "w", ")", "q", "}", ")">>
TrailText == PlainText \o <<";">>

Stamp1 == <<"2", "0", "2", "1", "1", "1", "3", "0", "1", "2", "0", "9", "2", "1">>
Stamp2 == <<"2", "0", "2", "0", "0", "2", "2", "9", "2", "3", "5", "9", "5", "9">>
\* month 13
BadStamp == <<"2", "0", "2", "1", "1", "3", "3", "0", "1", "2", "0", "9", "2", "1">>

Options(S) == {None} \cup {Some(v) : v \in S}

\* one element of the overview's result array
OverviewEntry(name, num, st, rr, upd, app) ==
    Obj(Field("stockIssuer",
              IF name.some
              THEN Some(Arr(<<Obj("s_issueCompanyFullName" :> name.v)>>))
              ELSE None)
        @@ Field("stockAuditNum", num)
        @@ Field("currStatus", st)
        @@ Field("registeResult", rr)
        @@ Field("updateDate", upd)
        @@ Field("auditApplyDate", app))

StatusCodes == {Num(n) : n \in 0..6} \cup {Str(<<"5">>), Num(-1)}
ResultCodes == {Num(1), Num(2), Num(3), Str(<<"1">>)}

OverviewEntries ==
    {OverviewEntry(name, num, st, rr, upd, app) :
        name \in Options({Str(<<" ", "A", " ">>)}),
        num \in Options({Str(<<"4", "2">>), Str(<<"x">>)}),
        st \in Options(StatusCodes),
        rr \in Options(ResultCodes),
        upd \in Options({Str(Stamp1), Str(Stamp2), Str(BadStamp)}),
        app \in Options({Str(Stamp1), Str(BadStamp)})}

GoodOverviewEntry ==
    OverviewEntry(Some(Str(<<" ", "A", " ">>)), Some(Str(<<"4", "2">>)), Some(Num(5)),
                  Some(Num(1)), Some(Str(Stamp1)), Some(Str(Stamp2)))

\* overview bodies: result missing, null, empty, or holding one entry; the
\* bodies without an entry also with a member the parser never reads
OverviewBodies ==
    {Obj(Field("result", r) @@ Field("jsonCallBack", cb)) :
        r \in Options({Null, Arr(<<>>)}), cb \in Options({Str(Callback)})}
        \cup {Obj("result" :> Arr(<<e>>)) : e \in OverviewEntries}
        \cup {Obj("result" :> Arr(<<GoodOverviewEntry, GoodOverviewEntry>>))}

\* one file descriptor of the disclosure response
Descriptor(ft, fv, title, date, company, path) ==
    Obj(Field("fileType", ft)
        @@ Field("fileVersion", fv)
        @@ Field("fileTitle", title)
        @@ Field("publishDate", date)
        @@ Field("companyFullName", company)
        @@ Field("filePath", path))

\* the codes of the table, one outside it (31), a code that is no number
DocumentFileTypes ==
    Options({Num(n) : n \in {30, 31, 32, 33, 34, 35, 36, 37, 38}} \cup {Str(<<"3", "0">>)})
QueryFileTypes == {Some(Num(5)), Some(Num(6))}
FileVersions == Options({Num(n) : n \in 0..5})

\* titles: the three known prefixes, an unknown one, and plain titles
Titles ==
    {<<"8", "-", "1", "T">>, <<"8", "-", "2", "T">>, <<"8", "-", "3", "T">>,
     <<"8", "-", "9", "T">>, <<"T">>, <<"8", "-">>}

\* a title with a "." in it (a version, an abbreviation, a date)
DottedTitle == <<"T", ".", "v">>

Date1 == <<"2021-07-06">>
Date2 == <<"2021-08-10">>
CompanyA == <<" ", "A", " ">>
FilePath1 == <<"/", "information", "/", "f1", ".", "pdf">>
FilePath2 == <<"/", "information", "/", "f2", ".", "pdf">>
FilePath3 == <<"/", "information", "/", "f3", ".", "pdf">>

\* every (fileType, fileVersion) pair with either publish date, every
\* title under the query-and-reply types, a prospectus with a dotted title,
\* and descriptors that lack one of the string members
FocusDescriptors ==
    {Descriptor(ft, fv, Some(Str(<<"T">>)), Some(Str(date)), Some(Str(CompanyA)),
                Some(Str(FilePath1))) :
        ft \in DocumentFileTypes, fv \in FileVersions, date \in {Date1, Date2}}
        \cup {Descriptor(ft, fv, Some(Str(title)), Some(Str(Date1)), Some(Str(CompanyA)),
                         Some(Str(FilePath1))) :
                ft \in QueryFileTypes, fv \in {None, Some(Num(1)), Some(Num(5))},
                title \in Titles}
        \cup {Descriptor(Some(Num(30)), Some(Num(3)), Some(Str(DottedTitle)),
                         Some(Str(date)), Some(Str(CompanyA)), Some(Str(FilePath1))) :
                date \in {Date1, Date2}}
        \cup {Descriptor(Some(Num(30)), Some(Num(1)), title, date, company, path) :
                title \in Options({Str(<<"8", "-", "1", "T">>)}),
                date \in Options({Str(Date1)}),
                company \in Options({Str(CompanyA)}), path \in Options({Str(FilePath1)})}

\* the descriptors that surround the one under study: one per kind of arm
FillerDescriptors ==
    {Descriptor(Some(Num(ft)), fv, Some(Str(title)), Some(Str(Date2)),
                Some(Str(CompanyA)), Some(Str(FilePath2))) :
        <<ft, fv, title>> \in {<<30, Some(Num(4)), <<"T">>>>,
                               <<30, Some(Num(4)), DottedTitle>>,
                               <<6, None, <<"8", "-", "9", "T">>>>,
                               <<38, Some(Num(1)), <<"T">>>>,
                               <<31, Some(Num(1)), <<"T">>>>}}

\* result arrays of at most n descriptors, one of them any descriptor and
\* the others fillers
FileArrays(n) ==
    {<<>>} \cup
    {pre \o <<f>> \o post :
        f \in FocusDescriptors,
        pre \in SeqsUpTo(FillerDescriptors, n - 1),
        post \in {s \in SeqsUpTo(FillerDescriptors, n - 1) : TRUE}}

DisclosureBodies ==
    {Obj("result" :> Arr(a)) : a \in {s \in FileArrays(MaxFiles) : Len(s) <= MaxFiles}}
        \cup {Obj(<<>>), Obj("result" :> Null)}

\* one announcement descriptor with its roster
Announcement(title, roster) ==
    Obj(("fileTitle" :> Str(title)) @@ ("filePath" :> Str(FilePath1))
        @@ ("stockAudit" :> Arr(roster)))

RosterEntry(audit, name) ==
    Obj(("auditId" :> Str(audit)) @@ ("companyFullName" :> Str(name)))

GoodAnnounceBody ==
    Obj("result" :> Arr(<<Announcement(<<"T">>,
            <<RosterEntry(<<"7">>, <<"B">>), RosterEntry(<<"4", "2">>, CompanyA)>>)>>))

\* the entries a roster may hold: the company queried (audit 42), another
\* company (audit 7), either without its name, and entries whose auditId is
\* no number or is missing
RosterEntries ==
    {Obj(Field("auditId", Some(Str(audit))) @@ Field("companyFullName", name)) :
        audit \in {<<"4", "2">>, <<"7">>},
        name \in Options({Str(CompanyA), Str(<<"B">>)})}
        \cup {Obj(Field("auditId", audit) @@ Field("companyFullName", Some(Str(CompanyA)))) :
                audit \in {None, Some(Str(<<"x">>))}}

\* an announcement with any roster, and announcements that lack a member
\* or whose stockAudit is no array
FocusAnnouncements ==
    {Announcement(<<"T">>, roster) : roster \in SeqsUpTo(RosterEntries, MaxRoster)}
        \cup {Obj(Field("fileTitle", title) @@ Field("filePath", path)
                  @@ Field("stockAudit", roster)) :
                title \in Options({Str(<<"T">>)}), path \in Options({Str(FilePath1)}),
                roster \in Options({Null, Arr(<<RosterEntry(<<"4", "2">>, CompanyA)>>)})}

\* the announcements that surround the one under study
FillerAnnouncements ==
    {Announcement(<<"U">>, <<RosterEntry(<<"4", "2">>, CompanyA)>>),
     Announcement(<<"V">>, <<RosterEntry(<<"7">>, <<"B">>),
                             RosterEntry(<<"4", "2">>, CompanyA)>>)}

\* result arrays of at most MaxFiles announcements, one of them any
\* announcement and the others fillers
AnnounceArrays ==
    {a \in {pre \o <<f>> \o post :
                f \in FocusAnnouncements,
                pre \in SeqsUpTo(FillerAnnouncements, MaxFiles - 1),
                post \in SeqsUpTo(FillerAnnouncements, MaxFiles - 1)} :
        Len(a) <= MaxFiles}

AnnounceBodies ==
    {Obj("result" :> Arr(a)) : a \in AnnounceArrays}
        \cup {Obj(<<>>), Obj("result" :> Null), Obj("result" :> Arr(<<>>))}

GoodOverviewBody == Obj("result" :> Arr(<<GoodOverviewEntry>>))

GoodDisclosureBody ==
    Obj("result" :> Arr(<<Descriptor(Some(Num(30)), Some(Num(1)), Some(Str(<<"T">>)),
        Some(Str(Date1)), Some(Str(CompanyA)), Some(Str(FilePath1)))>>))

---------------------------------------------------------------------------
(* The parsers as operations                                               *)

NotRun == [tag |-> "NotRun"]

TypeOK ==
    /\ build \in {"debug", "release"}
    /\ parser \in {"none", "CompanyInfo", "InfoDisclosure", "MeetingAnnounce"}
    /\ json_str.tag \in {"NotRun", "Ok", "Panic"}
    /\ outcome.tag \in {"NotRun", "Ok", "Err", "Panic"}

\* CompanyInfo::try_from(resp)
CompanyInfoTryFrom ==
    /\ parser = "none"
    /\ parser' = "CompanyInfo"
    /\ json_str' = Unwrap(resp, build)
    /\ outcome' = CompanyInfoTryFromFn(resp, payload, build)
    /\ UNCHANGED <<resp, payload, id, build>>
    /\ UNCHANGED run_vars

\* InfoDisclosure::try_from(resp)
InfoDisclosureTryFrom ==
    /\ parser = "none"
    /\ parser' = "InfoDisclosure"
    /\ json_str' = Unwrap(resp, build)
    /\ outcome' = InfoDisclosureTryFromFn(resp, payload, build)
    /\ UNCHANGED <<resp, payload, id, build>>
    /\ UNCHANGED run_vars

\* MeetingAnnounce::new(resp, id)
MeetingAnnounceNew ==
    /\ parser = "none"
    /\ parser' = "MeetingAnnounce"
    /\ json_str' = Unwrap(resp, build)
    /\ outcome' = MeetingAnnounceNewFn(resp, payload, id, build)
    /\ UNCHANGED <<resp, payload, id, build>>
    /\ UNCHANGED run_vars

\* no run of main: the parsers are called on their own
NoRun ==
    /\ companies = <<>>
    /\ sched = [pc |-> "exit", spawned |-> 0]
    /\ task = <<>>
    /\ sse = [companies |-> <<>>, failed_logs |-> <<>>]
    /\ mutex = 0
    /\ disk = <<>>

InitCall ==
    /\ build \in {"debug", "release"}
    /\ parser = "none"
    /\ json_str = NotRun
    /\ outcome = NotRun
    /\ NoRun

\* any response text, a body of each endpoint, each parser
InitEnvelope ==
    /\ InitCall
    /\ resp \in EnvelopeTexts \cup RawTexts
    /\ payload \in {GoodOverviewBody, GoodDisclosureBody, GoodAnnounceBody}
    /\ id = <<"4", "2">>

NextEnvelope == CompanyInfoTryFrom \/ InfoDisclosureTryFrom \/ MeetingAnnounceNew

SpecEnvelope == InitEnvelope /\ [][NextEnvelope]_vars

\* the overview parser on every overview body
InitOverview ==
    /\ InitCall
    /\ resp \in {PlainText, ParenText, TrailText}
    /\ payload \in OverviewBodies
    /\ id = <<"4", "2">>

NextOverview == CompanyInfoTryFrom

SpecOverview == InitOverview /\ [][NextOverview]_vars

\* the disclosure parser on every disclosure body
InitDisclosure ==
    /\ InitCall
    /\ resp \in {PlainText, ParenText}
    /\ payload \in DisclosureBodies
    /\ id = <<"4", "2">>

NextDisclosure == InfoDisclosureTryFrom

SpecDisclosure == InitDisclosure /\ [][NextDisclosure]_vars

\* the announcement parser on every announcement body, for the audit id
\* of the company queried
InitAnnounce ==
    /\ InitCall
    /\ resp \in {PlainText, ParenText}
    /\ payload \in AnnounceBodies
    /\ id = <<"4", "2">>

NextAnnounce == MeetingAnnounceNew

SpecAnnounce == InitAnnounce /\ [][NextAnnounce]_vars

---------------------------------------------------------------------------
(* The exchange: what the three query endpoints may answer                 *)

\* the largest number of tasks alive at once (main.rs 7: 4; the chunk size
\* of test_control_concurrency_num: 2)
MAX_CONCURRENCY == 2
\* the number of companies of a run (SSE_COMPANIES holds 83)
NumCompanies == 3

\* main.rs 11-100: the names, split at "," and trimmed
SSE_COMPANIES == [c \in 1..NumCompanies |-> <<<<"A">>, <<"B">>, <<"C">>, <<"D">>, <<"E">>>>[c]]

\* a response body arrived (send and text succeeded) or the request failed
Reply(text, value) == [net |-> TRUE, text |-> text, value |-> value]
NoReply == [net |-> FALSE]

\* the overview of the company name under audit number num
OverviewBodyOf(name, num) ==
    Obj("result" :> Arr(<<OverviewEntry(Some(Str(<<" ">> \o name \o <<" ">>)),
                                        Some(Str(num)), Some(Num(5)), Some(Num(1)),
                                        Some(Str(Stamp1)), Some(Str(Stamp2)))>>))

\* a declaration-draft prospectus, an unclassified reply, a file of a type
\* outside the table
ProspectusOf(name) ==
    Descriptor(Some(Num(30)), Some(Num(1)), Some(Str(<<"T">>)), Some(Str(Date1)),
               Some(Str(name)), Some(Str(FilePath1)))
ReplyLetterOf(name) ==
    Descriptor(Some(Num(5)), None, Some(Str(<<"8", "-", "9", "T">>)), Some(Str(Date1)),
               Some(Str(name)), Some(Str(FilePath2)))
UnknownFileOf(name) ==
    Descriptor(Some(Num(31)), Some(Num(1)), Some(Str(<<"T">>)), Some(Str(Date1)),
               Some(Str(name)), Some(Str(FilePath2)))

\* a meeting notice whose roster names company B under audit 7 and the
\* company name under audit 42
NoticeOf(name) ==
    Obj(("fileTitle" :> Str(<<"V">>)) @@ ("filePath" :> Str(FilePath3))
        @@ ("stockAudit" :> Arr(<<RosterEntry(<<"7">>, <<"B">>),
                                  RosterEntry(<<"4", "2">>, name)>>)))

\* answers to query_company_overview(name): the company under audit 42 or
\* 7, no company found, an empty body, no answer
OverviewReplies(name) ==
    {Reply(PlainText, OverviewBodyOf(name, <<"4", "2">>)),
     Reply(PlainText, OverviewBodyOf(name, <<"7">>)),
     Reply(PlainText, Obj("result" :> Arr(<<>>))),
     Reply(<<>>, Null),
     NoReply}

\* answers to query_company_disclosure: no file, one, two, a file of an
\* unknown type, an empty body, no answer
DisclosureReplies(name) ==
    {Reply(PlainText, Obj("result" :> Arr(a))) :
        a \in {<<>>, <<ProspectusOf(name)>>, <<ProspectusOf(name), ReplyLetterOf(name)>>,
               <<ProspectusOf(name), UnknownFileOf(name)>>}}
        \cup {Reply(<<>>, Null), NoReply}

\* answers to query_company_announce: no announcement, one whose roster
\* names company B under audit 7 and this company under audit 42, a body
\* without result, an announcement without roster, no answer
AnnounceReplies(name) ==
    {Reply(PlainText, Obj("result" :> Arr(<<>>))),
     Reply(PlainText, Obj("result" :> Arr(<<NoticeOf(name)>>))),
     Reply(PlainText, Obj(<<>>)),
     Reply(PlainText, Obj("result" :> Arr(<<Obj(("fileTitle" :> Str(<<"V">>))
                                               @@ ("filePath" :> Str(FilePath1)))>>))),
     NoReply}

\* the answers of a run of several companies: one of each outcome
FewOverviewReplies(name) ==
    {Reply(PlainText, OverviewBodyOf(name, <<"4", "2">>)), Reply(<<>>, Null), NoReply}
FewDisclosureReplies(name) ==
    {Reply(PlainText, Obj("result" :> Arr(<<ProspectusOf(name)>>))), NoReply}
FewAnnounceReplies(name) ==
    {Reply(PlainText, Obj("result" :> Arr(<<>>))), NoReply}

---------------------------------------------------------------------------
(* The file system                                                         *)

\* a folder; a file with the source its bytes come from, full once all of
\* them are written
Folder == [dir |-> TRUE]
FileOf(src, full) == [dir |-> FALSE, src |-> src, full |-> full]

\* the folder a path lies in
Parent(path) == SubSeq(path, 1, LastSep(path) - 1)

\* the path and the folders above it
Ancestors(path) ==
    {SubSeq(path, 1, k - 1) : k \in {j \in 2..Len(path) : path[j] = "/"}} \cup {path}

\* fs with entry e at path
WithEntry(fs, path, e) ==
    [q \in DOMAIN fs \cup {path} |-> IF q = path THEN e ELSE fs[q]]

\* std::fs::create_dir_all of every folder of the set, each with the
\* folders above it; what exists already is left as it is
CreateDirAll(fs, folders) ==
    LET made == UNION {Ancestors(f) : f \in folders} IN
    [q \in DOMAIN fs \cup made |-> IF q \in DOMAIN fs THEN fs[q] ELSE Folder]

\* the path failed_logs.txt of main
FailedLogsPath == <<"failed_logs", ".", "txt">>

---------------------------------------------------------------------------
(* process_company and download_company_files: sse.rs 580-734              *)

\* a task that main has not spawned yet
IdleTask ==
    [pc |-> "idle", round |-> 0, info |-> NotRun, disclosure |-> NotRun,
     announce |-> NotRun, download_tasks |-> <<>>, i |-> 0, ret |-> NotRun,
     again |-> NotRun, sent |-> <<>>]

\* lines 582-585, 593-596, 601-604: send and text fail with the request,
\* otherwise the parser decides
QueryCompanyOverviewFn(reply, profile) ==
    IF ~reply.net THEN Err("reqwest")
    ELSE CompanyInfoTryFromFn(reply.text, reply.value, profile)

QueryCompanyDisclosureFn(reply, profile) ==
    IF ~reply.net THEN Err("reqwest")
    ELSE InfoDisclosureTryFromFn(reply.text, reply.value, profile)

QueryCompanyAnnounceFn(reply, audit, profile) ==
    IF ~reply.net THEN Err("reqwest")
    ELSE MeetingAnnounceNewFn(reply.text, reply.value, audit, profile)

\* A faulty hand-over: audit_id keeps the 0 it is initialised with
AuditIdUnassigned(company_info) == <<"0">>

\* line 614: audit_id = company_info.as_ref().unwrap().stock_audit_number
AuditId(company_info) == company_info.val.stock_audit_number

\* A faulty failure: the company name is left out
FailureWithoutName(name) == Err(<<>>)

\* lines 640, 644: Err(name.to_owned())
Failure(name) == Err(name)

\* lines 618-622: the ItemDetail of a task whose three queries returned Ok
Item(t) ==
    [overview |-> t.info.val, disclosure |-> t.disclosure.val,
     announce |-> t.announce.val]

\* the files of the three slots of a bucket, in order
FilesOf(bucket) == bucket[1] \o bucket[2] \o bucket[3]

\* lines 663-721: download_tasks, in the order the lists are walked
DownloadTasks(company) ==
    LET d == company.disclosure
        replies == [k \in 1..Len(d.query_and_reply) |-> d.query_and_reply[k].v.file]
        results == [k \in 1..Len(d.register_result_or_audit_terminated) |->
                       d.register_result_or_audit_terminated[k].v]
        announcements == [k \in 1..Len(company.announce.announcements) |->
                             company.announce.announcements[k].v]
        all == FilesOf(d.prospectuses) \o FilesOf(d.publish_sponsor)
                   \o FilesOf(d.list_sponsor) \o FilesOf(d.audit_report)
                   \o FilesOf(d.legal_opinion) \o FilesOf(d.others)
                   \o replies \o results \o announcements
    IN  [k \in 1..Len(all) |-> [url |-> all[k].url, path |-> all[k].path]]

\* lines 656-661, 700-705: the folders download_company_files creates: the
\* seven of SUBFOLDERS, and the unclassified one when a reply is Other
FoldersOf(company) ==
    LET base == Push(Push(<<>>, <<"Download">>), company.overview.stock_audit_name)
        d == company.disclosure
    IN  {Push(base, SUBFOLDERS[k]) : k \in 1..Len(SUBFOLDERS)}
            \cup (IF \E k \in 1..Len(d.query_and_reply) :
                         d.query_and_reply[k].v.variant = "Other"
                  THEN {Push(base, UNCLASSIFIED_SUBFOLDER)}
                  ELSE {})

\* A faulty return: the error of the download phase is dropped
DownloadReturnsOk(t, name, result) ==
    IF t.round = 1
    THEN [t EXCEPT !.pc = "returned", !.ret = Ok(Item(t))]
    ELSE [t EXCEPT !.pc = "returned", !.again = result]

\* download_company_files returns result.  Lines 625-633: in
\* process_company Ok gives Ok(item) and Err(e) gives the text of e with
\* the name pushed behind it; the second call of the tests (lines 917,
\* 939) drops the result
DownloadReturns(t, name, result) ==
    IF t.round = 1
    THEN [t EXCEPT !.pc = "returned",
                   !.ret = IF result.tag = "Ok" THEN Ok(Item(t))
                           ELSE Err(result.msg \o name)]
    ELSE [t EXCEPT !.pc = "returned", !.again = result]

\* line 724: the loop goes on to the next task, or ends with Ok(())
NextTask(t, name) ==
    IF t.i >= Len(t.download_tasks)
    THEN DownloadReturns(t, name, Ok(<<>>))
    ELSE [t EXCEPT !.i = @ + 1, !.pc = "dl_check"]

\* A faulty loop: a task that fails is given up and the next one is tried
SkipFailedTask(t, name, e) == NextTask(t, name)

\* lines 727-730: the ? of a failed step returns the error at once
Propagate(t, name, e) == DownloadReturns(t, name, Err(e))

\* A faulty test: the file is fetched whether it exists or not
ExistsNot(fs, path) == FALSE

\* line 726 (and main.rs 125): path.exists()
Exists(fs, path) == path \in DOMAIN fs

\* File::create can succeed: the folder of the path exists and the path
\* is no folder
Creatable(fs, path) ==
    /\ Parent(path) = <<>> \/ (Parent(path) \in DOMAIN fs /\ fs[Parent(path)].dir)
    /\ path \notin DOMAIN fs \/ ~fs[path].dir

\* A faulty chunking: every company lands in one chunk
OneChunk(n, total) == n = total

\* main.rs 105: idx.chunks(MAX_CONCURRENCY): the n-th company ends a chunk
ChunkEnd(n, total) == n % MAX_CONCURRENCY = 0 \/ n = total

\* A faulty add: a failure drops the successes added before it
SseQueryAddFailureResets(query, company) ==
    IF company.tag = "Ok"
    THEN [query EXCEPT !.companies = Append(@, company.val)]
    ELSE [companies |-> <<>>, failed_logs |-> Append(query.failed_logs, company.msg)]

\* lines 572-577: SseQuery::add
SseQueryAdd(query, company) ==
    IF company.tag = "Ok"
    THEN [query EXCEPT !.companies = Append(@, company.val)]
    ELSE [query EXCEPT !.failed_logs = Append(@, company.msg)]

RECURSIVE JoinLines(_)
\* main.rs 131: failed_logs.join("\n")
JoinLines(logs) ==
    IF logs = <<>> THEN <<>>
    ELSE IF Len(logs) = 1 THEN Head(logs)
    ELSE Head(logs) \o <<"\n">> \o JoinLines(Tail(logs))

---------------------------------------------------------------------------
(* The steps of a task: main.rs 110-116, sse.rs 607-734                    *)

\* line 612: query_company_overview(client, name).await
QueryCompanyOverview(c, replies) ==
    /\ task[c].pc = "overview"
    /\ \E r \in replies :
           LET company_info == QueryCompanyOverviewFn(r, build)
               t == [task[c] EXCEPT
                        !.sent = Append(@, [kind |-> "overview", arg |-> companies[c]])]
           IN  task' = [task EXCEPT ![c] =
                   IF company_info.tag = "Panic" THEN [t EXCEPT !.pc = "aborted"]
                   ELSE IF company_info.tag = "Ok"
                   THEN [t EXCEPT !.pc = "disclosure", !.info = company_info]
                   ELSE [t EXCEPT !.pc = "returned", !.info = company_info,
                                  !.ret = Failure(companies[c])]]
    /\ UNCHANGED <<companies, sched, sse, mutex, disk, build>>
    /\ UNCHANGED call_vars

\* line 615: query_company_disclosure(client, audit_id).await
QueryCompanyDisclosure(c, replies) ==
    /\ task[c].pc = "disclosure"
    /\ \E r \in replies :
           LET audit_id == AuditId(task[c].info)
               disclosure == QueryCompanyDisclosureFn(r, build)
               t == [task[c] EXCEPT
                        !.sent = Append(@, [kind |-> "disclosure", arg |-> audit_id])]
           IN  task' = [task EXCEPT ![c] =
                   IF disclosure.tag = "Panic" THEN [t EXCEPT !.pc = "aborted"]
                   ELSE [t EXCEPT !.pc = "announce", !.disclosure = disclosure]]
    /\ UNCHANGED <<companies, sched, sse, mutex, disk, build>>
    /\ UNCHANGED call_vars

\* lines 616-617, 640: query_company_announce(client, audit_id).await, then
\* the test of both results
QueryCompanyAnnounce(c, replies) ==
    /\ task[c].pc = "announce"
    /\ \E r \in replies :
           LET audit_id == AuditId(task[c].info)
               announce == QueryCompanyAnnounceFn(r, audit_id, build)
               t == [task[c] EXCEPT
                        !.sent = Append(@, [kind |-> "announce", arg |-> audit_id])]
           IN  task' = [task EXCEPT ![c] =
                   IF announce.tag = "Panic" THEN [t EXCEPT !.pc = "aborted"]
                   ELSE IF t.disclosure.tag = "Ok" /\ announce.tag = "Ok"
                   THEN [t EXCEPT !.pc = "download", !.announce = announce]
                   ELSE [t EXCEPT !.pc = "returned", !.announce = announce,
                                  !.ret = Failure(companies[c])]]
    /\ UNCHANGED <<companies, sched, sse, mutex, disk, build>>
    /\ UNCHANGED call_vars

\* A faulty folder step: the error of a folder is returned with ?
UnwrapOrReturn(t, name, failed, next) ==
    IF failed = {} THEN next ELSE DownloadReturns(t, name, Err(<<"io">>))

\* line 660: create_dir_all(sub_folder).unwrap_or_else(|why| println!(..)):
\* the error of a folder is printed and the function goes on to next
UnwrapOrElsePrint(t, name, failed, next) == next

\* lines 652-723: download_company_files up to its loop: the folders are
\* created, a failure to create one being printed and passed over, and the
\* tasks are listed
DownloadCompanyFiles(c, may_fail) ==
    /\ task[c].pc = "download"
    /\ LET company == Item(task[c])
           folders == FoldersOf(company)
           tasks == DownloadTasks(company)
           t == [task[c] EXCEPT !.download_tasks = tasks, !.i = 1, !.pc = "dl_check"]
       IN  \E failed \in {{}} \cup (IF may_fail
                                    THEN {{f} : f \in folders} \cup {folders}
                                    ELSE {}) :
               /\ disk' = CreateDirAll(disk, folders \ failed)
               /\ task' = [task EXCEPT ![c] =
                      UnwrapOrElsePrint(t, companies[c], failed,
                          IF tasks = <<>>
                          THEN DownloadReturns([t EXCEPT !.i = 0], companies[c], Ok(<<>>))
                          ELSE t)]
    /\ UNCHANGED <<companies, sched, sse, mutex, build>>
    /\ UNCHANGED call_vars

\* lines 726-728: the file is passed over when its path exists, otherwise
\* it is requested and its bytes are read
DownloadSend(c) ==
    /\ task[c].pc = "dl_check"
    /\ LET t == task[c]
           job == t.download_tasks[t.i]
           s == [t EXCEPT !.sent = Append(@, [kind |-> "file", arg |-> job.url,
                                              round |-> t.round])]
       IN  IF Exists(disk, job.path)
           THEN task' = [task EXCEPT ![c] = NextTask(t, companies[c])]
           ELSE \E ok \in BOOLEAN :
                    task' = [task EXCEPT ![c] =
                        IF ok THEN [s EXCEPT !.pc = "dl_create"]
                        ELSE Propagate(s, companies[c], <<"reqwest">>)]
    /\ UNCHANGED <<companies, sched, sse, mutex, disk, build>>
    /\ UNCHANGED call_vars

\* line 729: File::create(path).await: the file exists, empty, from here on
DownloadCreate(c) ==
    /\ task[c].pc = "dl_create"
    /\ LET t == task[c]
           job == t.download_tasks[t.i]
       IN  \E ok \in BOOLEAN :
               IF ok /\ Creatable(disk, job.path)
               THEN /\ disk' = WithEntry(disk, job.path, FileOf(job.url, FALSE))
                    /\ task' = [task EXCEPT ![c].pc = "dl_write"]
               ELSE /\ disk' = disk
                    /\ task' = [task EXCEPT ![c] = Propagate(t, companies[c], <<"io">>)]
    /\ UNCHANGED <<companies, sched, sse, mutex, build>>
    /\ UNCHANGED call_vars

\* line 730: file.write_all(&content).await
DownloadWrite(c) ==
    /\ task[c].pc = "dl_write"
    /\ LET t == task[c]
           job == t.download_tasks[t.i]
       IN  \E ok \in BOOLEAN :
               IF ok
               THEN /\ disk' = WithEntry(disk, job.path, FileOf(job.url, TRUE))
                    /\ task' = [task EXCEPT ![c] = NextTask(t, companies[c])]
               ELSE /\ disk' = disk
                    /\ task' = [task EXCEPT ![c] = Propagate(t, companies[c], <<"io">>)]
    /\ UNCHANGED <<companies, sched, sse, mutex, build>>
    /\ UNCHANGED call_vars

\* sse.rs 917, 939: the tests call download_company_files once more on what
\* process_company returned; the unwrap of a failure panics
DownloadAgain(c) ==
    /\ task[c].pc = "returned"
    /\ task[c].round = 1
    /\ task' = [task EXCEPT ![c] =
           IF task[c].ret.tag = "Ok"
           THEN [task[c] EXCEPT !.pc = "download", !.round = 2]
           ELSE [task[c] EXCEPT !.pc = "aborted"]]
    /\ UNCHANGED <<companies, sched, sse, mutex, disk, build>>
    /\ UNCHANGED call_vars

\* A faulty lock: it is handed out whether it is held or not
AlwaysUnlocked(m) == TRUE

\* main.rs 102, 114, 130: Mutex::lock().await comes back once no guard of
\* the mutex is alive; m is the task that holds the guard, 0 for none
Unlocked(m) == m = 0

\* main.rs 114: sse_copy.lock().await
AcquireLock(c) ==
    /\ task[c].pc = "returned"
    /\ Unlocked(mutex)
    /\ mutex' = c
    /\ task' = [task EXCEPT ![c].pc = "add"]
    /\ UNCHANGED <<companies, sched, sse, disk, build>>
    /\ UNCHANGED call_vars

\* main.rs 115-116: copy.add(ret); the guard is dropped as the task ends
Add(c) ==
    /\ task[c].pc = "add"
    /\ mutex = c
    /\ sse' = SseQueryAdd(sse, task[c].ret)
    /\ mutex' = 0
    /\ task' = [task EXCEPT ![c].pc = "done"]
    /\ UNCHANGED <<companies, sched, disk, build>>
    /\ UNCHANGED call_vars

---------------------------------------------------------------------------
(* main: main.rs 95-133                                                    *)

\* main.rs 107-117: tokio::spawn of the task of the next company
Spawn ==
    /\ sched.pc = "spawn"
    /\ LET c == sched.spawned + 1 IN
       /\ task' = [task EXCEPT ![c] = [@ EXCEPT !.pc = "overview", !.round = 1]]
       /\ sched' = [pc |-> IF ChunkEnd(c, Len(companies)) THEN "await" ELSE "spawn",
                    spawned |-> c]
    /\ UNCHANGED <<companies, sse, mutex, disk, build>>
    /\ UNCHANGED call_vars

\* A faulty wait: the handle is dropped without being awaited
JoinHandleDropped(t) == TRUE

\* main.rs 119: handle.await is ready once the task has ended: its future
\* has run to its end or has panicked
JoinHandleReady(t) == t.pc \in {"done", "aborted"}

\* main.rs 118-120: every handle of the chunk is awaited; a task that
\* panicked yields a JoinError that is dropped
AwaitHandles ==
    /\ sched.pc = "await"
    /\ \A c \in 1..sched.spawned : JoinHandleReady(task[c])
    /\ sched' = [sched EXCEPT
                    !.pc = IF sched.spawned = Len(companies) THEN "write_log" ELSE "spawn"]
    /\ UNCHANGED <<companies, task, sse, mutex, disk, build>>
    /\ UNCHANGED call_vars

\* main.rs 123-132: failed_logs.txt is created when it does not exist and
\* opened for reading when it does; the unwrap of a failed create panics;
\* the result of write_all is dropped, and writing to a file opened for
\* reading fails
WriteFailedLogs ==
    /\ sched.pc = "write_log"
    /\ Unlocked(mutex)
    /\ LET content == JoinLines(sse.failed_logs) IN
       IF ~Exists(disk, FailedLogsPath)
       THEN \E created, written \in BOOLEAN :
                IF ~created
                THEN /\ disk' = disk
                     /\ sched' = [sched EXCEPT !.pc = "panicked"]
                ELSE /\ disk' = WithEntry(disk, FailedLogsPath, FileOf(content, written))
                     /\ sched' = [sched EXCEPT !.pc = "exit"]
       ELSE /\ disk' = disk
            /\ sched' = [sched EXCEPT !.pc = "exit"]
    /\ UNCHANGED <<companies, task, sse, mutex, build>>
    /\ UNCHANGED call_vars

\* the state main starts in, for the list of names and a file system
InitRun(names, disks) ==
    /\ build \in {"debug", "release"}
    /\ resp = <<>>
    /\ payload = Null
    /\ id = <<>>
    /\ parser = "none"
    /\ json_str = NotRun
    /\ outcome = NotRun
    /\ companies = names
    /\ sched = [pc |-> IF names = <<>> THEN "write_log" ELSE "spawn", spawned |-> 0]
    /\ task = [c \in 1..Len(names) |-> IdleTask]
    /\ sse = [companies |-> <<>>, failed_logs |-> <<>>]
    /\ mutex = 0
    /\ disk \in disks

\* a file system left by an earlier run for company A: its folders and
\* its prospectus
EarlierRun ==
    WithEntry(CreateDirAll(<<>>, {<<"Download", "/", "A", "/", "ShenBaoGao">>}),
              <<"Download", "/", "A", "/", "ShenBaoGao", "/", "T2021-07-06", ".", "pdf">>,
              FileOf(<<"earlier run">>, TRUE))

\* a file system that holds failed_logs.txt
EarlierLog == WithEntry(<<>>, FailedLogsPath, FileOf(<<"earlier run">>, TRUE))

\* one company, every answer of the exchange, either task (main's and the
\* tests')
InitPipeline == InitRun(<<<<"A">>>>, {<<>>, EarlierRun, EarlierLog})

NextPipeline ==
    \/ Spawn
    \/ AwaitHandles
    \/ WriteFailedLogs
    \/ \E c \in 1..Len(companies) : QueryCompanyOverview(c, OverviewReplies(companies[c]))
    \/ \E c \in 1..Len(companies) : QueryCompanyDisclosure(c, DisclosureReplies(companies[c]))
    \/ \E c \in 1..Len(companies) : QueryCompanyAnnounce(c, AnnounceReplies(companies[c]))
    \/ \E c \in 1..Len(companies) : DownloadCompanyFiles(c, TRUE)
    \/ \E c \in 1..Len(companies) : DownloadSend(c)
    \/ \E c \in 1..Len(companies) : DownloadCreate(c)
    \/ \E c \in 1..Len(companies) : DownloadWrite(c)
    \/ \E c \in 1..Len(companies) : DownloadAgain(c)
    \/ \E c \in 1..Len(companies) : AcquireLock(c)
    \/ \E c \in 1..Len(companies) : Add(c)

SpecPipeline == InitPipeline /\ [][NextPipeline]_vars

\* the run of main over SSE_COMPANIES
InitMain == InitRun(SSE_COMPANIES, {<<>>})

NextMain ==
    \/ Spawn
    \/ AwaitHandles
    \/ WriteFailedLogs
    \/ \E c \in 1..Len(companies) : QueryCompanyOverview(c, FewOverviewReplies(companies[c]))
    \/ \E c \in 1..Len(companies) : QueryCompanyDisclosure(c, FewDisclosureReplies(companies[c]))
    \/ \E c \in 1..Len(companies) : QueryCompanyAnnounce(c, FewAnnounceReplies(companies[c]))
    \/ \E c \in 1..Len(companies) : DownloadCompanyFiles(c, FALSE)
    \/ \E c \in 1..Len(companies) : DownloadSend(c)
    \/ \E c \in 1..Len(companies) : DownloadCreate(c)
    \/ \E c \in 1..Len(companies) : DownloadWrite(c)
    \/ \E c \in 1..Len(companies) : AcquireLock(c)
    \/ \E c \in 1..Len(companies) : Add(c)

SpecMain == InitMain /\ [][NextMain]_vars

\* main is started again after it has ended: every run begins with no
\* task, an empty SseQuery and a free lock, and finds the file system as
\* the runs before it left it
RunAgain ==
    /\ sched.pc \in {"exit", "panicked"}
    /\ companies # <<>>
    /\ sched' = [pc |-> "spawn", spawned |-> 0]
    /\ task' = [c \in 1..Len(companies) |-> IdleTask]
    /\ sse' = [companies |-> <<>>, failed_logs |-> <<>>]
    /\ mutex' = 0
    /\ UNCHANGED <<companies, disk, build>>
    /\ UNCHANGED call_vars

\* runs of main over one company, one after the other, the first on an
\* empty file system
InitRuns == InitRun(<<<<"A">>>>, {<<>>})

NextRuns ==
    \/ Spawn
    \/ AwaitHandles
    \/ WriteFailedLogs
    \/ RunAgain
    \/ \E c \in 1..Len(companies) : QueryCompanyOverview(c, FewOverviewReplies(companies[c]))
    \/ \E c \in 1..Len(companies) : QueryCompanyDisclosure(c, DisclosureReplies(companies[c]))
    \/ \E c \in 1..Len(companies) : QueryCompanyAnnounce(c, FewAnnounceReplies(companies[c]))
    \/ \E c \in 1..Len(companies) : DownloadCompanyFiles(c, FALSE)
    \/ \E c \in 1..Len(companies) : DownloadSend(c)
    \/ \E c \in 1..Len(companies) : DownloadCreate(c)
    \/ \E c \in 1..Len(companies) : DownloadWrite(c)
    \/ \E c \in 1..Len(companies) : AcquireLock(c)
    \/ \E c \in 1..Len(companies) : Add(c)

SpecRuns == InitRuns /\ [][NextRuns]_vars

---------------------------------------------------------------------------
(* Properties of the envelope: SpecEnvelope                                *)

Range(s) == {s[i] : i \in 1..Len(s)}

\* the text strictly between the first "(" and the last ")" of s
Between(s) ==
    LET first == CHOOSE i \in 1..Len(s) : s[i] = "(" /\ \A k \in 1..(i - 1) : s[k] # "("
        last == CHOOSE i \in 1..Len(s) : s[i] = ")" /\ \A k \in (i + 1)..Len(s) : s[k] # ")"
    IN  SubSeq(s, first + 1, last - 1)

\* the complete JSON objects among JsonTexts
CompleteJsonTexts == {j \in JsonTexts : j[Len(j)] = "}"}

\* resp is callback(json) and ends with the closing parenthesis, json
\* holding both parentheses inside its string
ParenEnvelope ==
    \E j \in CompleteJsonTexts :
        /\ resp = Callback \o <<"(">> \o j \o <<")">>
        /\ {"(", ")"} \subseteq Range(j)

\* C1: for a response callback(json) that ends with ")" and whose json
\* holds "(" and ")" inside a string value, the unwrapping step of each of
\* the three parsers yields exactly json, the text strictly between the
\* first "(" and the last ")" of the response.
C1_UnwrapKeepsInnerParens ==
    (parser # "none" /\ ParenEnvelope) =>
        /\ json_str = Ok(Between(resp))
        /\ Callback \o <<"(">> \o json_str.val \o <<")">> = resp

\* a parser has unwrapped a body with ")(" in its string and returned a record
C1_Witness ==
    /\ parser = "MeetingAnnounce"
    /\ resp = Callback \o <<"(", "{", "J", "q", ")", "(", "q", "}", ")">>
    /\ json_str = Ok(<<"{", "J", "q", ")", "(", "q", "}">>)
    /\ outcome.tag = "Ok"

\* resp is callback(json) followed by at least one more character
TrailingEnvelope ==
    \E j \in CompleteJsonTexts, tr \in SeqsUpTo(TrailChars, MaxTrail) :
        /\ tr # <<>>
        /\ resp = Callback \o <<"(">> \o j \o <<")">> \o tr

\* C2: when characters follow the closing parenthesis of callback(json),
\* unwrapping still produces exactly json (the content between the first
\* "(" and the last ")") and the parse goes on as without them.
C2_TrailingCharactersIgnored ==
    (parser # "none" /\ TrailingEnvelope) =>
        /\ json_str = Ok(Between(resp))
        /\ outcome.tag # "Err" \/ outcome.msg # "serde_json"

\* s holds no "(" that a ")" follows
NoParenPair(s) == ~\E i, k \in 1..Len(s) : i < k /\ s[i] = "(" /\ s[k] = ")"

\* C3: for a response without a "(" / ")" pair, the empty response
\* included, each parser returns an error value: no panic, no record.
C3_NoPairIsAnError ==
    (parser # "none" /\ NoParenPair(resp)) => outcome.tag = "Err"

---------------------------------------------------------------------------
(* Properties of the overview parser: SpecOverview                         *)

\* the envelope of resp is well formed: unwrapping and parsing give payload
WellFormed == resp \in {PlainText, ParenText}

\* C4: for an overview response whose unwrapped JSON has result = [],
\* CompanyInfo::try_from returns the error "empty company info" and does
\* not panic, whatever else the response holds.
C4_EmptyResultIsAnError ==
    (parser = "CompanyInfo" /\ WellFormed
        /\ "result" \in DOMAIN payload.m /\ payload.m["result"] = Arr(<<>>)) =>
        outcome = Err("empty company info")

\* the parser has refused an empty result that came with another member
C4_Witness ==
    /\ parser = "CompanyInfo"
    /\ resp = ParenText
    /\ payload = Obj(("result" :> Arr(<<>>)) @@ ("jsonCallBack" :> Str(Callback)))
    /\ outcome.tag = "Err"

\* a member of the first result entry as the response states it: its
\* number when it is a non-negative integer, -1 when the entry has no such
\* member (absent), -2 for anything else (not an unsigned integer)
CodeOf(k) ==
    LET e == payload.m["result"].a[1].m IN
    IF k \notin DOMAIN e THEN -1
    ELSE IF e[k].t = "num" /\ e[k].n >= 0 THEN e[k].n
    ELSE -2

\* the calendar date the updateDate of the first result entry writes
UpdateDay ==
    LET s == payload.m["result"].a[1].m["updateDate"].s IN
    IF s = Stamp1 THEN [year |-> 2021, month |-> 11, day |-> 30]
    ELSE [year |-> 2020, month |-> 2, day |-> 29]

Dated(variant) == [variant |-> variant, date |-> UpdateDay]

\* C5: CompanyInfo::try_from resolves the audit status from (currStatus,
\* registeResult) by the table: (5,1) Registered(Effective), (5,3)
\* Registered(Terminated), 4/3/2/1 with any result Submitted / Discussed /
\* Queried / Accepted, any other status code with a result code present
\* Unsupported(status, result), status absent Unknown; every date is the
\* date component of updateDate.
C5_StatusTable ==
    (parser = "CompanyInfo" /\ outcome.tag = "Ok") =>
        LET st == CodeOf("currStatus")
            rr == CodeOf("registeResult")
            got == outcome.val.curr_status
        IN  /\ (st = 5 /\ rr = 1) =>
                  got = [variant |-> "Registered", result |-> Dated("RegisterEffective")]
            /\ (st = 5 /\ rr = 3) =>
                  got = [variant |-> "Registered", result |-> Dated("RegisterTerminated")]
            /\ st = 4 => got = Dated("Submitted")
            /\ st = 3 => got = Dated("Discussed")
            /\ st = 2 => got = Dated("Queried")
            /\ st = 1 => got = Dated("Accepted")
            /\ (st >= 0 /\ st \notin 1..4 /\ rr >= 0 /\ <<st, rr>> \notin {<<5, 1>>, <<5, 3>>}) =>
                  got = [variant |-> "Unsupported", status |-> st, result |-> rr]
            /\ st = -1 => got = [variant |-> "Unknown"]
            /\ outcome.val.update_date.date = UpdateDay

\* a terminated registration, dated 29 February 2020 by its updateDate
C5_Witness ==
    /\ parser = "CompanyInfo"
    /\ outcome.tag = "Ok"
    /\ outcome.val.curr_status =
           [variant |-> "Registered",
            result |-> [variant |-> "RegisterTerminated",
                        date |-> [year |-> 2020, month |-> 2, day |-> 29]]]

---------------------------------------------------------------------------
(* Properties of the disclosure parser: SpecDisclosure                     *)

\* the descriptors of the response, in order
Descriptors == payload.m["result"].a

\* a member of descriptor x as the response states it: its number when a
\* non-negative integer, -1 when absent, -2 otherwise
NumberOf(x, k) ==
    IF k \notin DOMAIN x.m THEN -1
    ELSE IF x.m[k].t = "num" /\ x.m[k].n >= 0 THEN x.m[k].n
    ELSE -2

DocumentTypes == {30, 36, 37, 32, 33, 34}

\* the classification table of the disclosure listing
InTable(x) ==
    \/ NumberOf(x, "fileType") \in DocumentTypes /\ NumberOf(x, "fileVersion") \in 1..4
    \/ NumberOf(x, "fileType") \in {5, 6, 35, 38}

\* the bucket the table gives a document type
BucketOf(n) ==
    CASE n = 30 -> "prospectuses"
      [] n = 36 -> "publish_sponsor"
      [] n = 37 -> "list_sponsor"
      [] n = 32 -> "audit_report"
      [] n = 33 -> "legal_opinion"
      [] n = 34 -> "others"

\* the slot the table gives a version
SlotOf(v) == IF v = 1 THEN 0 ELSE IF v = 2 THEN 1 ELSE 2

\* the subfolder of a slot
FolderOfSlot(s) ==
    IF s = 0 THEN <<"ShenBaoGao">> ELSE IF s = 1 THEN <<"ShangHuiGao">> ELSE <<"ZhuCeGao">>

\* Download/<company of x, trimmed>/<folder>/
FolderPath(x, folder) ==
    <<"Download", "/">> \o Trim(x.m["companyFullName"].s) \o <<"/">> \o folder \o <<"/">>

\* path lies in the folder dir (which ends with a separator)
LiesIn(path, dir) == Len(path) > Len(dir) /\ SubSeq(path, 1, Len(dir)) = dir

\* file was built from descriptor x: its title leads the filename and its
\* filePath ends the URL
BuiltFrom(file, x) ==
    /\ LET title == x.m["fileTitle"].s
       IN  Len(file.filename) >= Len(title) /\ SubSeq(file.filename, 1, Len(title)) = title
    /\ LET p == x.m["filePath"].s
       IN  Len(file.url) >= Len(p)
           /\ SubSeq(file.url, Len(file.url) - Len(p) + 1, Len(file.url)) = p

\* C6: a descriptor with fileType in {30, 36, 37, 32, 33, 34} and
\* fileVersion in 1..4 is placed in the bucket of its type at slot 0
\* (version 1), 1 (version 2) or 2 (version 3 or 4) with a path in the
\* subfolder of that slot; a descriptor with fileType 35 or 38 goes to the
\* registration-result list with a path in the result folder.
C6_ClassificationTable ==
    (parser = "InfoDisclosure" /\ outcome.tag = "Ok") =>
        \A i \in 1..Len(Descriptors) :
            LET x == Descriptors[i]
                ft == NumberOf(x, "fileType")
                fv == NumberOf(x, "fileVersion")
            IN  /\ (ft \in DocumentTypes /\ fv \in 1..4) =>
                      \E f \in Range(outcome.val[BucketOf(ft)][SlotOf(fv) + 1]) :
                          /\ BuiltFrom(f, x)
                          /\ LiesIn(f.path, FolderPath(x, FolderOfSlot(SlotOf(fv))))
                /\ ft \in {35, 38} =>
                      \E f \in Range(outcome.val.register_result_or_audit_terminated) :
                          /\ BuiltFrom(f.v, x)
                          /\ LiesIn(f.v.path, FolderPath(x, <<"JieGuo">>))

\* a listing-sponsor letter of version 4 sits in slot 2, in the
\* registration folder, behind a registration result in the result list
C6_Witness ==
    /\ parser = "InfoDisclosure"
    /\ outcome.tag = "Ok"
    /\ Len(Descriptors) = 2
    /\ NumberOf(Descriptors[1], "fileType") = 38
    /\ NumberOf(Descriptors[2], "fileType") = 37
    /\ NumberOf(Descriptors[2], "fileVersion") = 4
    /\ Len(outcome.val.list_sponsor[3]) = 1
    /\ LiesIn(outcome.val.list_sponsor[3][1].path,
              <<"Download", "/", "A", "/", "ZhuCeGao", "/">>)
    /\ Len(outcome.val.register_result_or_audit_terminated) = 1

\* C7: when a descriptor of the response has a (fileType, fileVersion)
\* pair outside the classification table, InfoDisclosure::try_from fails
\* for the whole response, whatever descriptors precede or follow it.
C7_UnknownTypeAborts ==
    (parser = "InfoDisclosure" /\ WellFormed
        /\ "result" \in DOMAIN payload.m /\ payload.m["result"].t = "arr"
        /\ \E i \in 1..Len(Descriptors) : ~InTable(Descriptors[i])) =>
        outcome = Err("Error in parsing file path for InfoDisclosure")

\* the parse failed on a document of version 5 that follows a valid file
C7_Witness ==
    /\ parser = "InfoDisclosure"
    /\ "result" \in DOMAIN payload.m /\ payload.m["result"].t = "arr"
    /\ Len(Descriptors) = 2
    /\ InTable(Descriptors[1])
    /\ NumberOf(Descriptors[2], "fileType") = 33
    /\ NumberOf(Descriptors[2], "fileVersion") = 5
    /\ outcome.tag = "Err"

IsQueryReply(x) == NumberOf(x, "fileType") \in {5, 6}

\* the variant the title prefix selects
VariantOf(title) ==
    IF Len(title) < 3 \/ title[1] # "8" \/ title[2] # "-" THEN "Other"
    ELSE IF title[3] = "1" THEN "Sponsor"
    ELSE IF title[3] = "2" THEN "Accountant"
    ELSE IF title[3] = "3" THEN "Lawyer"
    ELSE "Other"

\* C8: for a descriptor with fileType 5 or 6, whatever its fileVersion, the
\* query-and-reply variant follows from the title prefix alone ("8-1"
\* Sponsor, "8-2" Accountant, "8-3" Lawyer, anything else Other), and one
\* QueryReply entry is appended per such descriptor.
C8_QueryReplyByPrefix ==
    (parser = "InfoDisclosure" /\ outcome.tag = "Ok") =>
        LET qs == SelectSeq(Descriptors, IsQueryReply)
            got == outcome.val.query_and_reply
        IN  /\ Len(got) = Len(qs)
            /\ \A i \in 1..Len(qs) :
                   /\ got[i].some
                   /\ got[i].v.variant = VariantOf(qs[i].m["fileTitle"].s)
                   /\ got[i].v.file.filename = qs[i].m["fileTitle"].s

\* an accountant's reply without a fileVersion, ahead of an unclassified one
C8_Witness ==
    /\ parser = "InfoDisclosure"
    /\ outcome.tag = "Ok"
    /\ Len(Descriptors) = 2
    /\ NumberOf(Descriptors[1], "fileVersion") = -1
    /\ Len(outcome.val.query_and_reply) = 2
    /\ outcome.val.query_and_reply[1].v.variant = "Accountant"
    /\ outcome.val.query_and_reply[2].v.variant = "Other"

\* C9: a query-and-reply document whose title matches none of the three
\* prefixes gets a path inside Download/<company>/WenXunYuHuiFu/WeiFenZu/,
\* the folder download_company_files creates for unclassified replies.
C9_UnclassifiedFolder ==
    (parser = "InfoDisclosure" /\ outcome.tag = "Ok") =>
        LET qs == SelectSeq(Descriptors, IsQueryReply)
            got == outcome.val.query_and_reply
        IN  \A i \in 1..Len(got) :
                got[i].v.variant = "Other" =>
                    LiesIn(got[i].v.file.path,
                           FolderPath(qs[i], <<"WenXunYuHuiFu", "/", "WeiFenZu">>))

\* the number of descriptors of the response that Test accepts
CountOf(Test(_)) == Len(SelectSeq(Descriptors, Test))

\* the files of the three slots of a bucket
InBucket(b) == Len(b[1]) + Len(b[2]) + Len(b[3])

\* the files a DisclosureSet holds in all
TotalFiles(set) ==
    InBucket(set.prospectuses) + InBucket(set.publish_sponsor)
        + InBucket(set.list_sponsor) + InBucket(set.audit_report)
        + InBucket(set.legal_opinion) + InBucket(set.others)
        + Len(set.query_and_reply) + Len(set.register_result_or_audit_terminated)

\* C10: when the N descriptors of a response all fall in the table, the
\* DisclosureSet returned holds exactly N files in all: each bucket slot
\* holds as many files as there are descriptors of its type and version,
\* the two lists as many as there are descriptors of their types.
C10_NothingLostOrDuplicated ==
    (parser = "InfoDisclosure" /\ outcome.tag = "Ok") =>
        /\ \A i \in 1..Len(Descriptors) : InTable(Descriptors[i])
        /\ TotalFiles(outcome.val) = Len(Descriptors)
        /\ \A n \in DocumentTypes, s \in 0..2 :
               LET Here(x) == /\ NumberOf(x, "fileType") = n
                              /\ NumberOf(x, "fileVersion") \in 1..4
                              /\ SlotOf(NumberOf(x, "fileVersion")) = s
               IN  /\ Len(outcome.val[BucketOf(n)][s + 1]) = CountOf(Here)
                   /\ \A f \in Range(outcome.val[BucketOf(n)][s + 1]) :
                          \E i \in 1..Len(Descriptors) :
                              Here(Descriptors[i]) /\ BuiltFrom(f, Descriptors[i])
        /\ Len(outcome.val.query_and_reply) = CountOf(IsQueryReply)
        /\ LET IsResult(x) == NumberOf(x, "fileType") \in {35, 38}
           IN  Len(outcome.val.register_result_or_audit_terminated) = CountOf(IsResult)

\* two documents of one slot (versions 3 and 4 of a prospectus) are both kept
C10_Witness ==
    /\ parser = "InfoDisclosure"
    /\ outcome.tag = "Ok"
    /\ Len(Descriptors) = 2
    /\ NumberOf(Descriptors[1], "fileVersion") = 3
    /\ NumberOf(Descriptors[2], "fileVersion") = 4
    /\ Len(outcome.val.prospectuses[3]) = 2

\* C11: two descriptors of one response that share a typed bucket slot and
\* a fileTitle and differ in publishDate are both kept in the slot's list,
\* and their destination paths differ.
C11_DateDisambiguates ==
    (parser = "InfoDisclosure" /\ outcome.tag = "Ok") =>
        \A n \in DocumentTypes, s \in 0..2 :
            LET Here(x) == /\ NumberOf(x, "fileType") = n
                           /\ NumberOf(x, "fileVersion") \in 1..4
                           /\ SlotOf(NumberOf(x, "fileVersion")) = s
                xs == SelectSeq(Descriptors, Here)
                fs == outcome.val[BucketOf(n)][s + 1]
            IN  /\ Len(fs) = Len(xs)
                /\ \A p, q \in 1..Len(xs) :
                       (/\ p < q
                        /\ xs[p].m["fileTitle"] = xs[q].m["fileTitle"]
                        /\ xs[p].m["publishDate"] # xs[q].m["publishDate"]) =>
                           /\ BuiltFrom(fs[p], xs[p])
                           /\ BuiltFrom(fs[q], xs[q])
                           /\ fs[p].path # fs[q].path

---------------------------------------------------------------------------
(* Properties of the announcement parser: SpecAnnounce                     *)

\* the announcements of the response, in order
Announcements == payload.m["result"].a

\* the roster of announcement x
RosterOf(x) == x.m["stockAudit"].a

\* the response is a list of announcements that hold every member, each
\* roster entry with a numeric auditId and a company name
WellFormedAnnouncements ==
    /\ "result" \in DOMAIN payload.m /\ payload.m["result"].t = "arr"
    /\ \A i \in 1..Len(Announcements) :
           LET x == Announcements[i] IN
           /\ {"fileTitle", "filePath", "stockAudit"} \subseteq DOMAIN x.m
           /\ x.m["stockAudit"].t = "arr"
           /\ \A k \in 1..Len(RosterOf(x)) :
                  LET e == RosterOf(x)[k] IN
                  /\ {"auditId", "companyFullName"} \subseteq DOMAIN e.m
                  /\ \A d \in 1..Len(e.m["auditId"].s) : e.m["auditId"].s[d] \in Digits

\* the roster entry is the one of the audit queried
Matches(e) == e.m["auditId"].s = id

\* Download/<name, trimmed>/JieGuo/<title>.pdf
AnnouncePath(name, title) ==
    <<"Download", "/">> \o Trim(name) \o <<"/", "JieGuo", "/">> \o title \o <<".", "pdf">>

\* C12: when the roster of an announcement holds an entry whose auditId is
\* the audit id queried, MeetingAnnounce::new builds the destination path
\* from the companyFullName of that entry, wherever the entry stands in the
\* roster.
C12_RosterEntryOfTheAudit ==
    (parser = "MeetingAnnounce" /\ WellFormed /\ WellFormedAnnouncements
        /\ \A i \in 1..Len(Announcements) :
               \E k \in 1..Len(RosterOf(Announcements[i])) :
                   Matches(RosterOf(Announcements[i])[k])) =>
        /\ outcome.tag = "Ok"
        /\ Len(outcome.val.announcements) = Len(Announcements)
        /\ \A i \in 1..Len(Announcements) :
               LET x == Announcements[i]
                   first == CHOOSE k \in 1..Len(RosterOf(x)) :
                                /\ Matches(RosterOf(x)[k])
                                /\ \A j \in 1..(k - 1) : ~Matches(RosterOf(x)[j])
               IN  outcome.val.announcements[i].v.path =
                       AnnouncePath(RosterOf(x)[first].m["companyFullName"].s,
                                    x.m["fileTitle"].s)

\* the entry of the audit stands second in the roster, behind another
\* company's, and the path is built from the second entry's name
C12_Witness ==
    /\ parser = "MeetingAnnounce"
    /\ WellFormedAnnouncements
    /\ Len(Announcements) = 1
    /\ Len(RosterOf(Announcements[1])) = 2
    /\ RosterOf(Announcements[1])[1] = RosterEntry(<<"7">>, <<"B">>)
    /\ RosterOf(Announcements[1])[2] = RosterEntry(<<"4", "2">>, CompanyA)
    /\ outcome.tag = "Ok"
    /\ outcome.val.announcements[1].v.path =
           <<"Download", "/", "A", "/", "JieGuo", "/", "T", ".", "pdf">>

\* C13: when the roster of an announcement is not empty and holds no entry
\* whose auditId is the audit id queried, MeetingAnnounce::new returns an
\* error and builds no path from another entry of the roster.
C13_NoMatchIsAnError ==
    (parser = "MeetingAnnounce" /\ WellFormed /\ WellFormedAnnouncements
        /\ \E i \in 1..Len(Announcements) :
               /\ Len(RosterOf(Announcements[i])) > 0
               /\ \A k \in 1..Len(RosterOf(Announcements[i])) :
                      ~Matches(RosterOf(Announcements[i])[k])) =>
        outcome.tag = "Err"

---------------------------------------------------------------------------
(* Properties of process_company and the downloads: SpecPipeline           *)

Tasks == 1..Len(companies)

\* the task has left process_company
Returned(t) == t.pc \in {"returned", "add", "done"} \/ (t.pc = "aborted" /\ t.ret # NotRun)

\* the requests of a kind among those the task has sent
SentOf(t, kind) == {k \in 1..Len(t.sent) : t.sent[k].kind = kind}

RequestOf(t, k) == [kind |-> "file", arg |-> t.download_tasks[k].url, round |-> 1]

\* job k was requested by process_company's download phase and was given
\* up: it is not in progress and no complete file stands at its path
GivenUp(t, k) ==
    /\ k \in 1..Len(t.download_tasks)
    /\ \E n \in 1..Len(t.sent) : t.sent[n] = RequestOf(t, k)
    /\ ~(t.round = 1 /\ t.i = k /\ t.pc \in {"dl_create", "dl_write"})
    /\ \/ t.download_tasks[k].path \notin DOMAIN disk
       \/ ~disk[t.download_tasks[k].path].full

\* C16: when the three queries succeed and the download phase returns an
\* error, process_company returns a failure whose text is the error with
\* the company name behind it, and the ItemDetail is not added to the
\* successes.
C16_DownloadFailureIsReported ==
    \A c \in Tasks :
        LET t == task[c] IN
        (t.round = 1 /\ \E k \in 1..Len(t.download_tasks) : GivenUp(t, k)) =>
            /\ Returned(t)
            /\ t.ret.tag = "Err"
            /\ \E e \in {<<"reqwest">>, <<"io">>} : t.ret.msg = e \o companies[c]
            /\ sse.companies = <<>>
            /\ t.pc = "done" => sse.failed_logs = <<t.ret.msg>>

\* the prospectus could not be fetched and the failure list holds the
\* request error followed by the name
C16_Witness ==
    /\ task[1].pc = "done"
    /\ Len(task[1].download_tasks) >= 1
    /\ GivenUp(task[1], 1)
    /\ sse = [companies |-> <<>>, failed_logs |-> <<<<"reqwest", "A">>>>]

\* the requests for files the task sent in its second call of
\* download_company_files
SecondRunRequests(t) ==
    {k \in SentOf(t, "file") : t.sent[k].round = 2}

\* C17: download_company_files requests a file only if nothing exists at
\* the destination path when its task is reached; a second call for the
\* same ItemDetail, every destination existing, requests nothing and
\* returns Ok.
C17_FetchOnlyIfAbsent ==
    /\ [][\A c \in Tasks :
              LET t == task[c]
                  after == task'[c]
              IN  (/\ Len(after.sent) > Len(t.sent)
                   /\ after.sent[Len(after.sent)].kind = "file") =>
                      /\ t.pc = "dl_check"
                      /\ after.sent[Len(after.sent)].arg = t.download_tasks[t.i].url
                      /\ t.download_tasks[t.i].path \notin DOMAIN disk]_vars
    /\ [](\A c \in Tasks :
              task[c].round = 2 =>
                  /\ \A k \in 1..Len(task[c].download_tasks) :
                         task[c].download_tasks[k].path \in DOMAIN disk
                  /\ SecondRunRequests(task[c]) = {}
                  /\ task[c].pc = "returned" => task[c].again = Ok(<<>>))

\* two files were fetched by process_company, and the second call of
\* download_company_files returned Ok without a request
C17_Witness ==
    /\ task[1].round = 2
    /\ task[1].pc = "returned"
    /\ task[1].again = Ok(<<>>)
    /\ Len(task[1].download_tasks) = 2
    /\ Cardinality(SentOf(task[1], "file")) = 2
    /\ SecondRunRequests(task[1]) = {}

\* C18: a download task that fails at any step leaves no file, empty or
\* partial, at its destination: once the download phase has returned its
\* error, every file at a destination path holds all the bytes of its
\* source.
C18_NoPartialFile ==
    \A c \in Tasks :
        LET t == task[c] IN
        (Returned(t) /\ t.ret.tag = "Err") =>
            \A k \in 1..Len(t.download_tasks) :
                LET path == t.download_tasks[k].path IN
                path \in DOMAIN disk => (disk[path].dir \/ disk[path].full)

\* C19: the first download task that fails ends the download phase: no
\* later task of the list is requested or written, and the error is
\* returned to process_company.
C19_FirstFailureEndsDownloads ==
    \A c \in Tasks :
        LET t == task[c] IN
        \A k \in 1..Len(t.download_tasks) :
            (t.round = 1 /\ GivenUp(t, k)) =>
                /\ Returned(t)
                /\ t.i = k
                /\ t.ret.tag = "Err"
                /\ \A j \in (k + 1)..Len(t.download_tasks) :
                       /\ \A n \in 1..Len(t.sent) : t.sent[n] # RequestOf(t, j)
                       /\ \/ t.download_tasks[j].path \notin DOMAIN disk
                          \/ disk[t.download_tasks[j].path].src # t.download_tasks[j].url

\* the first of two files could not be written; the second was never
\* requested
C19_Witness ==
    /\ Len(task[1].download_tasks) = 2
    /\ GivenUp(task[1], 1)
    /\ task[1].download_tasks[1].path \in DOMAIN disk
    /\ task[1].pc = "done"
    /\ Cardinality(SentOf(task[1], "file")) = 1

---------------------------------------------------------------------------
(* Properties of the run of main: SpecMain                                 *)

\* the tasks that were spawned and have not ended
Alive == {c \in Tasks : task[c].pc \notin {"idle", "done", "aborted"}}

\* C20: at every instant the number of company pipelines started and not
\* yet completed is at most the concurrency limit.
C20_AtMostMaxConcurrency == Cardinality(Alive) <= MAX_CONCURRENCY

\* a full chunk is downloading at once while a company waits for the
\* next chunk
C20_Witness ==
    /\ Cardinality(Alive) = MAX_CONCURRENCY
    /\ \A c \in Alive : task[c].pc \in {"dl_create", "dl_write"}
    /\ sched.pc = "await"
    /\ sched.spawned < Len(companies)

---------------------------------------------------------------------------
(* Properties of main: SpecMain                                            *)

\* the chunk of idx.chunks(MAX_CONCURRENCY) the c-th company falls in
ChunkOf(c) == (c - 1) \div MAX_CONCURRENCY

\* the task has ended: it has added its result, or it has panicked
Ended(t) == t.pc \in {"done", "aborted"}

\* C21: no task of a chunk is started before every task of the chunks
\* before it has ended (with a success, with a failure or by a panic), and
\* main comes to failed_logs.txt and to the lock it reads the result under
\* only after every task of every chunk has ended.
C21_ChunkAfterChunk ==
    /\ \A c, d \in Tasks :
           ChunkOf(d) < ChunkOf(c) /\ task[c].pc # "idle" => Ended(task[d])
    /\ sched.pc \in {"write_log", "exit", "panicked"} =>
           \A c \in Tasks : Ended(task[c])

\* the log is about to be written after a run of more than one chunk, in
\* which a task of the first chunk panicked and one returned a failure
C21_Witness ==
    /\ sched.pc = "write_log"
    /\ ChunkOf(Len(companies)) > 0
    /\ \E c, d \in Tasks :
           /\ ChunkOf(c) = 0 /\ ChunkOf(d) = 0
           /\ task[c].pc = "aborted"
           /\ task[d].pc = "done" /\ task[d].ret.tag = "Err"
    /\ task[Len(companies)].pc = "done" /\ task[Len(companies)].ret.tag = "Ok"

\* the tasks inside SseQuery::add: they hold the guard and have not added
Adding == {c \in Tasks : task[c].pc = "add"}

\* the tasks that have added their result
Added == {c \in Tasks : task[c].pc = "done"}

\* the number of places of the sequence s that hold x
Occurrences(s, x) == Cardinality({k \in 1..Len(s) : s[k] = x})

\* C22: at most one task is inside SseQuery::add at any instant, and it is
\* the one that holds the lock; nothing a task has added is lost or
\* overwritten: companies and failed_logs together hold one entry for each
\* task that has added, and every result added is in its list as often as
\* tasks have added it.
C22_AddsAreSerialized ==
    /\ Cardinality(Adding) <= 1
    /\ \A c \in Adding : mutex = c
    /\ Len(sse.companies) + Len(sse.failed_logs) = Cardinality(Added)
    /\ \A c \in Added :
           LET same == {d \in Added : task[d].ret = task[c].ret} IN
           IF task[c].ret.tag = "Ok"
           THEN Occurrences(sse.companies, task[c].ret.val) = Cardinality(same)
           ELSE Occurrences(sse.failed_logs, task[c].ret.msg) = Cardinality(same)

\* one task is inside add while another of the same chunk has returned and
\* waits for the lock
C22_Witness ==
    \E c, d \in Tasks :
        /\ c # d
        /\ task[c].pc = "add" /\ mutex = c
        /\ task[d].pc = "returned"
        /\ task[c].ret.tag # task[d].ret.tag

\* what the result holds for the c-th company: an ItemDetail under its
\* name, a failure text that ends with its name, or nothing
RecordedFor(c) ==
    LET name == companies[c]
        won == {k \in 1..Len(sse.companies) :
                   sse.companies[k].overview.stock_audit_name = name}
        lost == {k \in 1..Len(sse.failed_logs) :
                    LET m == sse.failed_logs[k] IN
                    Len(m) >= Len(name)
                        /\ SubSeq(m, Len(m) - Len(name) + 1, Len(m)) = name}
    IN  [success |-> Cardinality(won), failure |-> Cardinality(lost)]

\* what the c-th task's own exchange makes of the company: a success when
\* its three queries were answered well and each of its files is complete
\* at its path, a failure when a query failed or a file was given up
OwnOutcome(c) ==
    LET t == task[c] IN
    IF t.info.tag = "Ok" /\ t.disclosure.tag = "Ok" /\ t.announce.tag = "Ok"
           /\ \A k \in 1..Len(t.download_tasks) :
                  LET job == t.download_tasks[k] IN
                  /\ job.path \in DOMAIN disk
                  /\ disk[job.path] = FileOf(job.url, TRUE)
    THEN [success |-> 1, failure |-> 0]
    ELSE IF \/ t.info.tag = "Err"
            \/ t.disclosure.tag = "Err"
            \/ t.announce.tag = "Err"
            \/ \E k \in 1..Len(t.download_tasks) : GivenUp(t, k)
    THEN [success |-> 0, failure |-> 1]
    ELSE [success |-> 0, failure |-> 0]

\* C23: what is recorded for a company is what its own task's exchange
\* makes of it, whatever the tasks of the other companies do (succeed, fail
\* at any stage, panic) and however the tasks interleave: a task that has
\* added is recorded once, by its own outcome; a task that has not added
\* or has panicked is recorded nowhere; and the lock is held only by a task
\* about to add, so that no task that failed or panicked keeps another from
\* recording.
C23_OutcomeIsTheTasksOwn ==
    /\ \A c \in Tasks :
           RecordedFor(c) = IF task[c].pc = "done" THEN OwnOutcome(c)
                            ELSE [success |-> 0, failure |-> 0]
    /\ \A c \in Tasks : task[c].pc = "done" =>
           OwnOutcome(c).success + OwnOutcome(c).failure = 1
    /\ mutex # 0 => task[mutex].pc = "add"

\* of three companies one has panicked, one is recorded as a failure and
\* one, of the same chunk as the one that panicked, as a success
C23_Witness ==
    \E a, b, c \in Tasks :
        /\ task[a].pc = "aborted"
        /\ task[b].pc = "done" /\ RecordedFor(b) = [success |-> 1, failure |-> 0]
        /\ task[c].pc = "done" /\ RecordedFor(c) = [success |-> 0, failure |-> 1]
        /\ ChunkOf(a) = ChunkOf(b) /\ a < b

---------------------------------------------------------------------------
(* Required members of the announce response: SpecAnnounce                 *)

\* the announcement lacks a roster: stockAudit is absent or no array
NoRoster(x) == "stockAudit" \notin DOMAIN x.m \/ x.m["stockAudit"].t # "arr"

\* the roster entry has no numeric auditId: the member is absent, no string
\* or no number
NoAuditId(e) ==
    \/ "auditId" \notin DOMAIN e.m
    \/ e.m["auditId"].t # "str"
    \/ ~ParseU32(e.m["auditId"].s).some

\* C24: an announce response in which a required member is absent or of
\* the wrong type (stockAudit no array, an auditId that is no numeric
\* string) makes MeetingAnnounce::new return an error, which
\* process_company turns into a failure of the company.
C24_MissingFieldIsAnError ==
    (parser = "MeetingAnnounce" /\ WellFormed
        /\ "result" \in DOMAIN payload.m /\ payload.m["result"].t = "arr"
        /\ \E i \in 1..Len(Announcements) :
               \/ NoRoster(Announcements[i])
               \/ \E k \in 1..Len(RosterOf(Announcements[i])) :
                      NoAuditId(RosterOf(Announcements[i])[k])) =>
        outcome.tag = "Err"

---------------------------------------------------------------------------
(* Folders and destinations: SpecPipeline                                  *)

\* the three queries of the task were answered well
QueriesOk(t) == t.info.tag = "Ok" /\ t.disclosure.tag = "Ok" /\ t.announce.tag = "Ok"

\* C25: download_company_files creates its folders before it requests the
\* first file, and a folder that cannot be created does not end the call:
\* the tasks are listed and walked all the same, the call returns an error
\* only when a task was given up after its request, and it returns Ok only
\* with every planned path on the disk.
C25_FolderFailureIsPassedOver ==
    \A c \in Tasks :
        LET t == task[c] IN
        /\ (t.round = 1 /\ t.pc \in {"overview", "disclosure", "announce", "download"}) =>
               SentOf(t, "file") = {}
        /\ (t.round = 1 /\ t.pc \in {"dl_check", "dl_create", "dl_write"}) =>
               /\ t.download_tasks = DownloadTasks(Item(t))
               /\ t.i \in 1..Len(t.download_tasks)
        /\ (t.round = 1 /\ Returned(t) /\ QueriesOk(t)) =>
               /\ t.download_tasks = DownloadTasks(Item(t))
               /\ t.ret.tag = "Err" => \E k \in 1..Len(t.download_tasks) : GivenUp(t, k)
               /\ t.ret.tag = "Ok" =>
                      \A k \in 1..Len(t.download_tasks) :
                          t.download_tasks[k].path \in DOMAIN disk

\* a folder of the company could not be created, and the company has
\* returned a success with its file fetched and complete
C25_Witness ==
    \E c \in Tasks :
        LET t == task[c] IN
        /\ t.round = 1 /\ t.pc = "returned" /\ t.ret.tag = "Ok"
        /\ \E f \in FoldersOf(Item(t)) : f \notin DOMAIN disk
        /\ Len(t.download_tasks) >= 1
        /\ \E n \in 1..Len(t.sent) : t.sent[n] = RequestOf(t, 1)
        /\ disk[t.download_tasks[1].path] =
               FileOf(t.download_tasks[1].url, TRUE)

\* C26: when main has ended with failures in its list and no write to
\* failed_logs.txt was cut short, the file holds the entries of the list,
\* one per line, whether it existed before the run or not.
C26_FailedLogsHoldTheFailures ==
    (sched.pc = "exit" /\ sse.failed_logs # <<>>) =>
        /\ FailedLogsPath \in DOMAIN disk
        /\ disk[FailedLogsPath].full =>
               disk[FailedLogsPath].src = JoinLines(sse.failed_logs)

\* the folders download_company_files creates for the ItemDetail, with
\* the folders above them
CreatedFor(company) == UNION {Ancestors(f) : f \in FoldersOf(company)}

\* C28: for every ItemDetail process_company assembles, the folder of every
\* destination path, of a disclosure file or of an announcement, is one of
\* the folders download_company_files creates under
\* Download/<overview company name>/, or a folder above one of them, and
\* the path lies under Download/<overview company name>/.
C28_DestinationsUnderTheCompany ==
    \A c \in Tasks :
        LET t == task[c] IN
        (QueriesOk(t) /\ t.pc # "announce") =>
            LET company == Item(t)
                jobs == DownloadTasks(company)
                root == Push(<<"Download">>, company.overview.stock_audit_name)
            IN  \A k \in 1..Len(jobs) :
                    /\ Parent(jobs[k].path) \in CreatedFor(company)
                    /\ LiesIn(jobs[k].path, root \o <<"/">>)

---------------------------------------------------------------------------
(* Destinations of one response: SpecDisclosure                            *)

\* C29: the download tasks planned from one disclosure response have
\* pairwise distinct destination paths whenever their source URLs differ,
\* in every bucket, the query-and-reply list and the registration-result
\* list included.
C29_DistinctDocumentsDistinctPaths ==
    (parser = "InfoDisclosure" /\ outcome.tag = "Ok") =>
        LET jobs == DownloadTasks([disclosure |-> outcome.val,
                                   announce |-> [announcements |-> <<>>]])
        IN  \A p, q \in 1..Len(jobs) :
                jobs[p].url # jobs[q].url => jobs[p].path # jobs[q].path

---------------------------------------------------------------------------
(* The result of the run: SpecMain                                         *)

\* C27: when every chunk has been awaited, every company of the list is
\* accounted for once: the ItemDetails of companies and the entries of
\* failed_logs are together as many as the companies, a task that panicked
\* included.
C27_EveryCompanyAccountedFor ==
    sched.pc \in {"write_log", "exit", "panicked"} =>
        Len(sse.companies) + Len(sse.failed_logs) = Len(companies)

---------------------------------------------------------------------------
(* Runs one after the other: SpecRuns                                      *)

\* C30: starting from an empty file system and after any sequence of runs,
\* runs in which a download failed part-way included, whenever a company
\* is recorded as a success every one of its planned destination paths
\* holds the complete bytes of the source URL of its task.
C30_SuccessMeansCompleteFiles ==
    \A n \in 1..Len(sse.companies) :
        LET jobs == DownloadTasks(sse.companies[n]) IN
        \A k \in 1..Len(jobs) :
            /\ jobs[k].path \in DOMAIN disk
            /\ disk[jobs[k].path] = FileOf(jobs[k].url, TRUE)

=============================================================================
